---------------------------- MODULE Spec2Model ----------------------------
(***************************************************************************)
(* State-machine model of the undo/redo engine of wpeditor (src/wpundo.c)  *)
(* together with the part of the GtkTextBuffer it replays against: the     *)
(* text, the tags carried by every character and the insert mark.          *)
(*                                                                         *)
(* A GSList is a sequence whose first element is the list head.  A Group   *)
(* (one element of undo_queue / redo_queue) is the sequence of operations  *)
(* reachable from the queue node's data pointer, most recent first.        *)
(***************************************************************************)
EXTENDS Integers, Sequences, FiniteSets, TLC

VARIABLES
    priv,       \* struct _WPUndoPrivate
    buffer,     \* the GtkTextBuffer: characters with their tags, the two marks
    emitted,    \* the signals emitted by the last call, in order
    status,     \* "run", or how the last call failed to return: "hang", "segv"
    hist        \* history of the scenario a specification drives (not program state)

vars == <<priv, buffer, emitted, status, hist>>

-----------------------------------------------------------------------------
(* Program constants *)

MIN_UNDO_LEVEL == 5
MAX_UNDO_LEVEL == 200
DEF_UNDO_LEVEL == 5

(* Bounds of the model *)

\* longest text the buffer is allowed to grow to
MaxDocLen == 2
\* most Operations the two queues hold together
MaxOps == 2
\* most Operations each queue holds where every record call is made
MaxRecorded == 1
\* longest text where recording is suppressed and resumed
MaxFrozenLen == 1
\* the transactions recorded beyond max_undo_level
CapExtra == 5
\* most tag changes one Operation holds
MaxTags == 2
\* most freeze() calls without a thaw(), and thaw() calls without a freeze()
MaxNest == 1
\* how far undo_queue_len is followed below 0 and above the number of Groups
MaxDrift == 1
\* how far max_undo_level is raised above MIN_UNDO_LEVEL and lowered again
MaxShrink == 2
\* longest text of letters and spaces that is typed besides the two words
MaxTypedLen == 3
\* the length of the document a range with spans is deleted from
SpanLen == 3

SPACE == " "
NEWLINE == "\n"
\* U+FFFC, the object replacement character that stands for an image
OBJ == "?"

BOLD == "bold"
ITALIC == "italic"
UNDERLINE == "underline"
BULLET == "bullet"
\* a justification tag
CENTER == "center"

NULL == "NULL"
\* a pointer to memory that was freed
FREED == "freed"

-----------------------------------------------------------------------------
(* Small helpers on sequences *)

Min(a, b) == IF a < b THEN a ELSE b
Max(a, b) == IF a > b THEN a ELSE b

\* the elements i..j of s (empty when j < i)
Slice(s, i, j) == [k \in 1..(j - i + 1) |-> s[i + k - 1]]

Reverse(s) == [k \in 1..Len(s) |-> s[Len(s) + 1 - k]]

\* s without its elements after the first n
Take(s, n) == Slice(s, 1, Min(n, Len(s)))

-----------------------------------------------------------------------------
(* The GtkTextBuffer.  buffer.chars[i] is the character at offset i-1, a   *)
(* record [c |-> character, t |-> set of tags applied to it]; cursor is    *)
(* the insert mark, bound the selection_bound mark.                        *)

DocLen(b) == Len(b.chars)

\* gtk_text_buffer_get_iter_at_offset: an offset past the end (or negative)
\* gives the end iterator
IterAt(b, off) == IF off < 0 \/ off > DocLen(b) THEN DocLen(b) ELSE off

\* gtk_text_iter_get_tags: the tags of the character at the iterator
TagsAt(b, off) == IF off >= 0 /\ off < DocLen(b) THEN b.chars[off + 1].t ELSE {}

\* gtk_text_iter_toggles_tag(iter, tag)
TogglesTag(b, off, tag) == (tag \in TagsAt(b, off - 1)) /= (tag \in TagsAt(b, off))

\* gtk_text_iter_toggles_tag(iter, NULL): some tag toggles here
TogglesAny(b, off) == TagsAt(b, off - 1) /= TagsAt(b, off)

\* gtk_text_iter_ends_line
EndsLine(b, off) == off >= DocLen(b) \/ b.chars[off + 1].c = NEWLINE

\* mark movement on insertion of n characters at pos (the insert mark has
\* right gravity)
MarkAfterInsert(m, pos, n) == IF m >= pos THEN m + n ELSE m

\* mark movement on deletion of [s, e)
MarkAfterDelete(m, s, e) == IF m <= s THEN m ELSE IF m >= e THEN m - (e - s) ELSE s

\* gtk_text_buffer_insert: the new characters carry the tags that are on at
\* both sides of the insertion point
gtk_text_buffer_insert(b, off, txt) ==
    LET pos == IterAt(b, off)
        inh == TagsAt(b, pos - 1) \cap TagsAt(b, pos)
        new == [k \in 1..Len(txt) |-> [c |-> txt[k], t |-> inh]]
    IN  [b EXCEPT !.chars = Slice(b.chars, 1, pos) \o new
                              \o Slice(b.chars, pos + 1, DocLen(b)),
                  !.cursor = MarkAfterInsert(b.cursor, pos, Len(txt)),
                  !.bound = MarkAfterInsert(b.bound, pos, Len(txt))]

\* gtk_text_buffer_delete: the iterators are put in order first
gtk_text_buffer_delete(b, off1, off2) ==
    LET i1 == IterAt(b, off1)
        i2 == IterAt(b, off2)
        s == Min(i1, i2)
        e == Max(i1, i2)
    IN  [b EXCEPT !.chars = Slice(b.chars, 1, s) \o Slice(b.chars, e + 1, DocLen(b)),
                  !.cursor = MarkAfterDelete(b.cursor, s, e),
                  !.bound = MarkAfterDelete(b.bound, s, e)]

\* apply (on = TRUE) or remove a tag over [off1, off2)
SetTag(b, tag, off1, off2, on) ==
    LET i1 == IterAt(b, off1)
        i2 == IterAt(b, off2)
        s == Min(i1, i2)
        e == Max(i1, i2)
    IN  [b EXCEPT !.chars = [k \in 1..DocLen(b) |->
            IF k > s /\ k <= e
            THEN [b.chars[k] EXCEPT !.t = IF on THEN @ \cup {tag} ELSE @ \ {tag}]
            ELSE b.chars[k]]]

gtk_text_buffer_apply_tag(b, tag, off1, off2) == SetTag(b, tag, off1, off2, TRUE)
gtk_text_buffer_remove_tag(b, tag, off1, off2) == SetTag(b, tag, off1, off2, FALSE)

gtk_text_buffer_remove_all_tags(b, off1, off2) ==
    LET i1 == IterAt(b, off1)
        i2 == IterAt(b, off2)
        s == Min(i1, i2)
        e == Max(i1, i2)
    IN  [b EXCEPT !.chars = [k \in 1..DocLen(b) |->
            IF k > s /\ k <= e THEN [b.chars[k] EXCEPT !.t = {}] ELSE b.chars[k]]]

gtk_text_buffer_place_cursor(b, off) ==
    [b EXCEPT !.cursor = IterAt(b, off), !.bound = IterAt(b, off)]

\* gtk_text_buffer_select_range(buffer, ins, bound)
gtk_text_buffer_select_range(b, ins, bnd) ==
    [b EXCEPT !.cursor = IterAt(b, ins), !.bound = IterAt(b, bnd)]

\* the text of [s, e) as a sequence of characters
gtk_text_buffer_get_slice(b, s, e) == [k \in 1..(e - s) |-> b.chars[s + k].c]

\* the whole text
BufferText(b) == gtk_text_buffer_get_slice(b, 0, DocLen(b))

-----------------------------------------------------------------------------
(* Characters *)

\* g_utf8_get_char of a text: its first character, 0 for the empty text
FirstChar(txt) == IF Len(txt) = 0 THEN "NUL" ELSE txt[1]

\* no character is white space
g_unichar_isspace_never(c) == FALSE

\* every character taken for white space
g_unichar_isspace_always(c) == TRUE

g_unichar_isspace(c) == c \in {SPACE, NEWLINE}

HELLO == <<"h", "e", "l", "l", "o">>

HELLO_WORLD == HELLO \o <<SPACE, "w", "o", "r", "l", "d">>

-----------------------------------------------------------------------------
(* WPUndoTag and the sweep over a range *)

\* the order in which tags of one position are listed
TagOrder == <<BOLD, ITALIC, UNDERLINE, BULLET, CENTER>>

AllTags == {TagOrder[i] : i \in 1..Len(TagOrder)}

IsIn(x, S) == x \in S

\* the tags of S as a list
TagList(S) == SelectSeq(TagOrder, LAMBDA t : IsIn(t, S))

wp_undo_create_tag(start, end, tag, enable) ==
    [apply |-> enable, start |-> start, end |-> end, tag |-> tag]

\* gtk_text_iter_forward_to_tag_toggle(iter, NULL): the next offset after off
\* where some tag toggles (the end of the buffer included), -1 when none
NextToggle(b, off) ==
    LET T == {o \in (off + 1)..DocLen(b) : TogglesAny(b, o)}
    IN  IF T = {} THEN -1 ELSE CHOOSE o \in T : \A o2 \in T : o <= o2

\* the loop of wp_undo_get_toggled_tags: hash maps a tag to the offset where
\* it was opened plus one, 0 when it is not in the table
RECURSIVE SweepLoop(_, _, _, _, _)
SweepLoop(b, tmp, end, hash, tags) ==
    LET nxt == NextToggle(b, tmp)
    IN  IF nxt = -1 \/ nxt >= end
        THEN [hash |-> hash, tags |-> tags]
        ELSE LET off == TagList({t \in TagsAt(b, nxt - 1) \ TagsAt(b, nxt) : hash[t] /= 0})
                 on == TagsAt(b, nxt) \ TagsAt(b, nxt - 1)
                 closed == [k \in 1..Len(off) |->
                              wp_undo_create_tag(hash[off[k]] - 1, nxt, off[k], TRUE)]
                 hash2 == [t \in AllTags |->
                              IF t \in on THEN nxt + 1
                              ELSE IF t \in (TagsAt(b, nxt - 1) \ TagsAt(b, nxt)) THEN 0
                              ELSE hash[t]]
             IN  SweepLoop(b, nxt, end, hash2, tags \o closed)

\* the table emptied without a tag saved
wp_undo_close_opened_tags_none(hash, end) == <<>>

\* wp_undo_close_opened_tags over the whole table
wp_undo_close_opened_tags(hash, end) ==
    LET open == TagList({t \in AllTags : hash[t] /= 0})
    IN  [k \in 1..Len(open) |-> wp_undo_create_tag(hash[open[k]] - 1, end, open[k], TRUE)]

\* wp_undo_get_toggled_tags with one snapshot over the whole range for
\* each tag of the character at start
wp_undo_get_toggled_tags_whole(b, start, end) ==
    LET open == TagList(TagsAt(b, start))
    IN  [k \in 1..Len(open) |-> wp_undo_create_tag(start, end, open[k], TRUE)]

wp_undo_get_toggled_tags(b, start, end) ==
    LET hash0 == [t \in AllTags |-> IF t \in TagsAt(b, start) THEN start + 1 ELSE 0]
        r == SweepLoop(b, start, end, hash0, <<>>)
    IN  r.tags \o wp_undo_close_opened_tags(r.hash, end)

update_tags_range(tags, start, end) ==
    [k \in 1..Len(tags) |-> [tags[k] EXCEPT !.start = start, !.end = end]]

\* wp_undo_apply_saved_tags: the removals first, then the applications.
\* (No tag of the model is an "image-tag-" tag, so the renaming branch is
\* not taken.)
RECURSIVE ApplyPass(_, _, _)
ApplyPass(b, tags, apply) ==
    IF tags = <<>> THEN b
    ELSE LET tag == Head(tags)
             b2 == IF tag.apply = apply
                   THEN SetTag(b, tag.tag, tag.start, tag.end, apply)
                   ELSE b
         IN  ApplyPass(b2, Tail(tags), apply)

wp_undo_apply_saved_tags(b, tags) == ApplyPass(ApplyPass(b, tags, FALSE), tags, TRUE)

-----------------------------------------------------------------------------
(* WPUndoOperation and struct _WPUndoPrivate *)

\* g_new0(WPUndoOperation, 1): every field zero (type 0 is WP_UNDO_INSERT)
NewOperation ==
    [type |-> "INSERT", start |-> 0, end |-> 0, text |-> <<>>,
     orig_tag |-> NULL, tag |-> NULL, orig_tags |-> <<>>, tags |-> <<>>,
     sel_start |-> 0, sel_end |-> 0,
     old_line_justify |-> 0, new_line_justify |-> 0,
     mergeable |-> FALSE, backspace |-> FALSE, rich_text |-> FALSE]

\* wp_undo_init and the construct-time properties.  current_op is NULL,
\* "undo_head", "redo_head" or FREED: while it is "undo_head", current_op
\* is the first Operation of the first Group of undo_queue and
\* current_op_list is that Group's list; it is "redo_head" while undo()
\* replays the Group they point to, which it has moved to the head of
\* redo_queue; while it is FREED both point to a Group that was freed.
\* undo_sent and redo_sent are signed one-bit fields: 0 or -1.
InitPriv ==
    [undo_queue |-> <<>>, redo_queue |-> <<>>,
     current_op |-> NULL,
     last_char_is_space |-> FALSE, first_in_group |-> FALSE,
     group |-> 0, undo_disabled |-> 0,
     max_undo_level |-> DEF_UNDO_LEVEL, undo_queue_len |-> 0,
     undo_sent |-> 0, redo_sent |-> 0,
     low_mem |-> FALSE, disable_this_group |-> FALSE]

\* an empty GtkTextBuffer, in no user action
InitBuffer == [chars |-> <<>>, cursor |-> 0, bound |-> 0, user_action_count |-> 0]

\* the machine a call works on: m.p the private struct, m.b the buffer,
\* m.e the signals emitted so far by the call, m.st whether it still runs,
\* m.ub whether an access through a freed pointer faults, m.oom which
\* allocation of the call returns NULL ("op", "text" or NULL for none)
Machine(p, b) == [p |-> p, b |-> b, e |-> <<>>, st |-> "run", ub |-> FALSE, oom |-> NULL]

\* g_signal_emit
Emit(m, sig, arg) == [m EXCEPT !.e = Append(@, [sig |-> sig, arg |-> arg])]

\* the value a signed one-bit field holds after a boolean is stored in it
Bit(x) == IF x THEN -1 ELSE 0

\* a C truth value as an int
BoolInt(x) == IF x THEN 1 ELSE 0

\* what is read through a freed pointer when the read does not fault
Garbage == [NewOperation EXCEPT !.type = FREED]

\* the Operation current_op points to
CurrentOp(p) ==
    CASE p.current_op = FREED -> Garbage
      [] p.current_op = "redo_head" -> p.redo_queue[1][1]
      [] OTHER -> p.undo_queue[1][1]

\* the Operation current_op points to is left as it was
SetCurrentOp_kept(p, op) == p

\* assignment through current_op; a write to freed memory that does not
\* fault changes nothing the engine still reaches
SetCurrentOp(p, op) ==
    CASE p.current_op = FREED -> p
      [] p.current_op = "redo_head" -> [p EXCEPT !.redo_queue[1][1] = op]
      [] OTHER -> [p EXCEPT !.undo_queue[1][1] = op]

\* an access through current_op faults
Faults(m) == m.p.current_op = FREED /\ m.ub

Segv(m) == [m EXCEPT !.st = "segv"]

wp_undo_freeze(m) == [m EXCEPT !.p.undo_disabled = @ + 1]

wp_undo_thaw(m) == [m EXCEPT !.p.undo_disabled = @ - 1]

wp_undo_is_enabled(p) == p.undo_disabled = 0 /\ p.low_mem = FALSE

wp_undo_start_group(m) ==
    IF m.p.group + 1 = 1
    THEN [m EXCEPT !.p.group = @ + 1,
                   !.p.first_in_group = TRUE,
                   !.p.disable_this_group = FALSE]
    ELSE [m EXCEPT !.p.group = @ + 1]

wp_undo_end_group(m) ==
    IF m.p.group - 1 = 0
    THEN [m EXCEPT !.p.group = @ - 1, !.p.disable_this_group = FALSE]
    ELSE [m EXCEPT !.p.group = @ - 1]

wp_undo_can_undo(p) == p.undo_queue /= <<>> /\ p.low_mem = FALSE

wp_undo_can_redo(p) == p.redo_queue /= <<>> /\ p.low_mem = FALSE

\* the comparison is between the stored bit-field (0 or -1) and the int
\* value of (queue != NULL) (0 or 1)
wp_undo_send_signals(m) ==
    LET enable == m.p.low_mem = FALSE
        redo == m.p.redo_queue /= <<>>
        undo == m.p.undo_queue /= <<>>
        m1 == IF m.p.redo_sent /= BoolInt(redo) /\ enable
              THEN Emit([m EXCEPT !.p.redo_sent = Bit(redo /\ enable)],
                        "can_redo", Bit(redo /\ enable))
              ELSE m
    IN  IF m1.p.undo_sent /= BoolInt(undo) /\ enable
        THEN Emit([m1 EXCEPT !.p.undo_sent = Bit(undo /\ enable)],
                  "can_undo", Bit(undo /\ enable))
        ELSE m1

wp_undo_reset_mergeable(m) ==
    IF Faults(m) THEN Segv(m)
    ELSE IF m.p.current_op /= NULL
    THEN [m EXCEPT !.p = [SetCurrentOp(m.p, [CurrentOp(m.p) EXCEPT !.mergeable = FALSE])
                            EXCEPT !.current_op = NULL]]
    ELSE m

\* a list that is not freed
wp_undo_free_op_list_kept(queue) == queue

\* wp_undo_free_op_list returns NULL
wp_undo_free_op_list(queue) == <<>>

\* the text with every U+FFFC replaced by a space
\* the placeholder characters taken out of the text
remove_image_tags_cut(text) == SelectSeq(text, LAMBDA c : c /= OBJ)

remove_image_tags(text) == [k \in 1..Len(text) |-> IF text[k] = OBJ THEN SPACE ELSE text[k]]

\* the list after g_slist_nth(list, n)->next = NULL; unchanged when the list
\* has no element n
\* the list with nothing freed
TruncateAfterNth_nothing(list, n) == list

TruncateAfterNth(list, n) == IF n + 1 <= Len(list) THEN Take(list, n + 1) ELSE list

wp_undo_add_queue(m, op0) ==
    LET first_in_group == m.p.first_in_group
        op == [op0 EXCEPT !.text = remove_image_tags(@)]
    IN  IF m.p.disable_this_group THEN m
        ELSE
        LET m1 == IF m.p.group = 0 \/ m.p.first_in_group
                  THEN wp_undo_reset_mergeable([m EXCEPT !.p.first_in_group = FALSE])
                  ELSE m
            \* current_op_list = g_slist_prepend(current_op_list, op), and the
            \* list becomes the head of undo_queue or replaces its data; after
            \* a freed current_op_list the Operations behind op are freed memory
            \* (the list of the Group that undo() replays is freed with
            \* redo_queue below)
            q == IF m1.p.current_op = NULL
                 THEN <<(<<op>>)>> \o m1.p.undo_queue
                 ELSE IF m1.p.current_op \in {FREED, "redo_head"}
                 THEN <<(<<op>>)>> \o Tail(m1.p.undo_queue)
                 ELSE <<(<<op>> \o m1.p.undo_queue[1])>> \o Tail(m1.p.undo_queue)
            m2 == [m1 EXCEPT !.p.undo_queue = q,
                             !.p.current_op = "undo_head",
                             !.p.redo_queue = wp_undo_free_op_list(@)]
            m3 == IF first_in_group
                  THEN IF m2.p.undo_queue_len + 1 > m2.p.max_undo_level
                       THEN [m2 EXCEPT !.p.undo_queue_len = m2.p.max_undo_level,
                                       !.p.undo_queue =
                                           TruncateAfterNth(@, m2.p.max_undo_level - 1)]
                       ELSE [m2 EXCEPT !.p.undo_queue_len = @ + 1]
                  ELSE m2
        IN  IF m1.st /= "run" THEN m1
            \* undo_queue->data is written through a NULL undo_queue
            ELSE IF m1.p.current_op \in {FREED, "redo_head"} /\ m1.p.undo_queue = <<>>
            THEN Segv(m1)
            ELSE wp_undo_send_signals(m3)

\* emit_no_memory: the head Group of undo_queue is freed; current_op and
\* current_op_list are left as they are
emit_no_memory(m) ==
    LET m1 == Emit(m, "no_memory", 0)
        m2 == IF ~m1.p.first_in_group /\ ~m1.p.disable_this_group /\ m1.p.undo_queue /= <<>>
              THEN wp_undo_send_signals(
                       [m1 EXCEPT !.p.undo_queue = Tail(@),
                                  !.p.current_op = IF @ = NULL THEN NULL ELSE FREED])
              ELSE m1
    IN  [m2 EXCEPT !.p.disable_this_group = TRUE]

\* a reset that frees the redo queue only
wp_undo_reset_redo_only(m) ==
    LET m1 == wp_undo_reset_mergeable(m)
    IN  IF m1.st /= "run" THEN m1 ELSE
        wp_undo_send_signals([m1 EXCEPT !.p.redo_queue = wp_undo_free_op_list(@)])

wp_undo_reset(m) ==
    LET m1 == wp_undo_reset_mergeable(m)
    IN  IF m1.st /= "run" THEN m1 ELSE
        wp_undo_send_signals([m1 EXCEPT !.p.undo_queue = wp_undo_free_op_list(@),
                                        !.p.redo_queue = wp_undo_free_op_list(@)])

-----------------------------------------------------------------------------
(* The record calls.  Each returns the machine after the call; the buffer  *)
(* is only read.                                                           *)

\* the test of the record calls with the freeze count compared to 0 only
Disabled_nonzero(p) == p.undo_disabled /= 0 \/ p.low_mem

Disabled(p) == p.undo_disabled > 0 \/ p.low_mem

wp_undo_insert_text(m, pos, text) ==
    IF Disabled(m.p) THEN m
    ELSE
    LET la == m.p.current_op
        start == pos
        end == pos + Len(text)
        mergeable == ~((end - start > 1) \/ FirstChar(text) = NEWLINE)
        is_space == mergeable /\ g_unichar_isspace(FirstChar(text))
    IN  IF mergeable /\ Faults(m) THEN Segv(m)
        ELSE IF mergeable /\ la /= NULL /\ CurrentOp(m.p).mergeable
                     /\ CurrentOp(m.p).type = "INSERT"
        /\ CurrentOp(m.p).end = start /\ (is_space \/ ~m.p.last_char_is_space)
        THEN LET op == CurrentOp(m.p)
             IN  [m EXCEPT !.p = [SetCurrentOp(m.p,
                                     [op EXCEPT !.text = op.text \o text,
                                                !.tags = update_tags_range(op.tags, op.start, op.end),
                                                !.end = end])
                                  EXCEPT !.last_char_is_space = is_space]]
        ELSE
        LET m1 == IF mergeable /\ la /= NULL /\ CurrentOp(m.p).mergeable
                               /\ CurrentOp(m.p).type = "INSERT"
                  THEN [m EXCEPT !.p = SetCurrentOp(m.p,
                                          [CurrentOp(m.p) EXCEPT !.mergeable = FALSE])]
                  ELSE m
            op == [NewOperation EXCEPT !.type = "INSERT", !.start = start, !.end = end,
                                       !.mergeable = mergeable, !.text = text]
        IN  IF m.oom = "op" THEN emit_no_memory(m1)
            ELSE IF m.oom = "text"
            THEN emit_no_memory([m1 EXCEPT !.p.last_char_is_space = is_space])
            ELSE wp_undo_add_queue([m1 EXCEPT !.p.last_char_is_space = is_space], op)

wp_undo_delete_range(m, start, end) ==
    IF Disabled(m.p) THEN m
    ELSE IF m.oom = "text" THEN emit_no_memory(m)
    ELSE
    LET la == m.p.current_op
        \* co.start is still 0 when it is compared with the insert mark
        backspace == 0 < m.b.cursor
        text == gtk_text_buffer_get_slice(m.b, start, end)
        is_space == g_unichar_isspace(FirstChar(text))
        co_mergeable == ~((end - start > 1) \/ FirstChar(text) = NEWLINE)
        mergeable == co_mergeable /\
                     (IF backspace THEN ~TogglesAny(m.b, start) ELSE ~TogglesAny(m.b, end))
        candidate == co_mergeable /\ la /= NULL /\ CurrentOp(m.p).mergeable
                     /\ CurrentOp(m.p).type = "DELETE"
                     /\ CurrentOp(m.p).backspace = backspace
        ws == is_space \/ ~m.p.last_char_is_space
    IN  IF co_mergeable /\ Faults(m) THEN Segv(m)
        ELSE IF candidate /\ backspace /\ CurrentOp(m.p).start = end /\ ws
        THEN LET op == CurrentOp(m.p)
             IN  [m EXCEPT !.p = [SetCurrentOp(m.p,
                                     [op EXCEPT !.text = text \o op.text,
                                                !.start = start,
                                                !.tags = update_tags_range(op.tags, start, op.end),
                                                !.mergeable = mergeable])
                                  EXCEPT !.last_char_is_space = is_space]]
        ELSE IF candidate /\ ~backspace /\ CurrentOp(m.p).end = start /\ ws
        THEN LET op == CurrentOp(m.p)
             IN  [m EXCEPT !.p = [SetCurrentOp(m.p,
                                     [op EXCEPT !.text = op.text \o text,
                                                !.end = end,
                                                !.tags = update_tags_range(op.tags, op.start, end),
                                                !.mergeable = mergeable])
                                  EXCEPT !.last_char_is_space = is_space]]
        ELSE
        LET m1 == IF candidate
                  THEN [m EXCEPT !.p = SetCurrentOp(m.p,
                                          [CurrentOp(m.p) EXCEPT !.mergeable = FALSE])]
                  ELSE m
            op == [NewOperation EXCEPT !.type = "DELETE", !.start = start, !.end = end,
                                       !.text = text, !.backspace = backspace,
                                       !.mergeable = mergeable,
                                       !.tags = wp_undo_get_toggled_tags(m.b, start, end)]
        IN  wp_undo_add_queue([m1 EXCEPT !.p.last_char_is_space = is_space], op)

\* tag = NULL opens a WP_UNDO_TAG Operation over [start, end)
wp_undo_apply_tag(m, start, end, tag, enable) ==
    IF Disabled(m.p) THEN m
    ELSE IF tag /= NULL /\ Faults(m) THEN Segv(m)
    ELSE IF m.p.current_op /= NULL /\ tag /= NULL
    THEN LET op == CurrentOp(m.p)
             t == wp_undo_create_tag(start, end, tag, enable)
         IN  CASE op.type = "INSERT" ->
                    [m EXCEPT !.p = SetCurrentOp(m.p, [op EXCEPT !.tags = Append(@, t)])]
               [] op.type = "TAG" ->
                    IF start >= op.start /\ end <= op.end
                    THEN [m EXCEPT !.p = SetCurrentOp(m.p, [op EXCEPT !.tags = <<t>> \o @])]
                    ELSE m
               [] op.type = "FMT" ->
                    [m EXCEPT !.p = SetCurrentOp(m.p, [op EXCEPT !.tags = <<t>> \o @])]
               [] OTHER -> m
    ELSE IF tag = NULL /\ m.oom = "op" THEN emit_no_memory(m)
    ELSE IF tag = NULL
    THEN wp_undo_add_queue(m,
            [NewOperation EXCEPT !.type = "TAG",
                                 !.orig_tags = wp_undo_get_toggled_tags(m.b, start, end),
                                 !.start = start, !.end = end])
    ELSE m

wp_undo_last_line_justify(m, old_line_justify, new_line_justify) ==
    IF Disabled(m.p) THEN m
    ELSE IF m.oom = "op" THEN emit_no_memory(m)
    ELSE wp_undo_add_queue(m,
            [NewOperation EXCEPT !.type = "LAST_LINE_JUSTIFY",
                                 !.old_line_justify = old_line_justify,
                                 !.new_line_justify = new_line_justify])

wp_undo_simple_justification(m, start, end, orig_tag, tag) ==
    IF Disabled(m.p) THEN m
    ELSE IF m.oom = "op" THEN emit_no_memory(m)
    ELSE wp_undo_add_queue(m,
            [NewOperation EXCEPT !.type = "SIMPLE_JUSTIFY",
                                 !.orig_tag = orig_tag, !.tag = tag,
                                 !.start = start, !.end = end])

wp_undo_selection_changed(m, istart, iend) ==
    IF Disabled(m.p) THEN m
    ELSE
    LET la == m.p.current_op
        select == la /= NULL /\ CurrentOp(m.p).type = "SELECT"
    IN  IF Faults(m) THEN Segv(m)
        ELSE IF select /\ (CurrentOp(m.p).sel_start = istart \/ CurrentOp(m.p).sel_end = iend)
                  /\ CurrentOp(m.p).mergeable
        THEN [m EXCEPT !.p = SetCurrentOp(m.p, [CurrentOp(m.p) EXCEPT !.sel_start = istart,
                                                                      !.sel_end = iend])]
        ELSE
        LET m1 == IF select
                  THEN [m EXCEPT !.p = SetCurrentOp(m.p,
                                          [CurrentOp(m.p) EXCEPT !.mergeable = FALSE])]
                  ELSE m
        IN  IF istart /= iend /\ m.oom = "op" THEN emit_no_memory(m1)
            ELSE IF istart /= iend
            THEN wp_undo_add_queue(m1,
                    [NewOperation EXCEPT !.type = "SELECT", !.sel_start = istart,
                                         !.sel_end = iend, !.mergeable = TRUE])
            ELSE m1

wp_undo_format_changed(m, rich_text) ==
    IF Disabled(m.p) THEN m
    ELSE IF m.oom = "op" THEN emit_no_memory(m)
    ELSE wp_undo_add_queue(m,
            [NewOperation EXCEPT !.type = "FMT", !.rich_text = rich_text,
                                 !.tags = wp_undo_get_toggled_tags(m.b, 0, DocLen(m.b))])

-----------------------------------------------------------------------------
(* User actions of the buffer.  The buffer the engine works on is the      *)
(* WPTextBuffer that created it; GtkTextBuffer runs the class handlers of  *)
(* begin-user-action and end-user-action for the outermost pair only.      *)
(* (The buffer is not in fast mode and holds no image, so neither handler  *)
(* returns early or resets the engine.)                                    *)

wp_text_buffer_begin_user_action(m) == wp_undo_start_group(m)

wp_text_buffer_end_user_action(m) == wp_undo_end_group(m)

gtk_text_buffer_begin_user_action(m) ==
    LET m1 == [m EXCEPT !.b.user_action_count = @ + 1]
    IN  IF m1.b.user_action_count = 1 THEN wp_text_buffer_begin_user_action(m1) ELSE m1

gtk_text_buffer_end_user_action(m) ==
    LET m1 == [m EXCEPT !.b.user_action_count = @ - 1]
    IN  IF m1.b.user_action_count = 0 THEN wp_text_buffer_end_user_action(m1) ELSE m1

-----------------------------------------------------------------------------
(* Replay.  r.m is the machine, r.pos the proposed_cursor_pos.             *)

\* gtk_text_buffer_get_selection_bounds: the two marks in order
SelectionBounds(b) == <<Min(b.cursor, b.bound), Max(b.cursor, b.bound)>>

\* the range of op selected whatever the selection is
wp_undo_redo_selection_always(b, queue, op, first) ==
    gtk_text_buffer_select_range(b, IterAt(b, op.sel_start), IterAt(b, op.sel_end))

\* wp_undo_redo_selection(text_buffer, queue, op, first)
RECURSIVE wp_undo_redo_selection(_, _, _, _)
wp_undo_redo_selection(b, queue, op, first) ==
    LET start == IterAt(b, op.sel_start)
        end == IterAt(b, op.sel_end)
    IN  IF SelectionBounds(b) = <<start, end>>
        THEN LET repeat == queue /= <<>> /\ first /\ queue[1][1].type = "SELECT"
             IN  IF ~repeat
                 THEN gtk_text_buffer_place_cursor(b, end)
                 ELSE wp_undo_redo_selection(b, queue, queue[1][1], FALSE)
        ELSE gtk_text_buffer_select_range(b, start, end)

\* gtk_text_iter_forward_to_tag_toggle(iter, tag): the next offset after off
\* where tag toggles, the end of the buffer when there is none
NextToggleOf(b, off, tag) ==
    LET T == {o \in (off + 1)..DocLen(b) : TogglesTag(b, o, tag)}
    IN  IF T = {} THEN DocLen(b) ELSE CHOOSE o \in T : \A o2 \in T : o <= o2

\* _wp_text_iter_skip_bullet(&pos, tag, TRUE) at the insert mark, and the
\* cursor placed there when the mark is in the bullet
wp_undo_skip_bullet_at_cursor(b) ==
    IF BULLET \in TagsAt(b, b.cursor)
    THEN gtk_text_buffer_place_cursor(b, NextToggleOf(b, b.cursor, BULLET))
    ELSE b

\* the bullet loop of the WP_UNDO_INSERT case: at starts at start and is
\* moved to offset 1 for as long as it ends a line
BulletLoop(r, start) ==
    IF ~EndsLine(r.m.b, start) THEN r
    ELSE IF ~EndsLine(r.m.b, IterAt(r.m.b, 1)) THEN [r EXCEPT !.pos = @ + 1]
    ELSE [r EXCEPT !.m.st = "hang"]

\* one iteration of the loop of wp_undo_undo
\* The insertion and the deletion that undo() makes reach the buffer's
\* handlers, which report them to wp_undo_insert_text and
\* wp_undo_delete_range before the text changes (wptextbuffer.c 1103,
\* 1314); the calls return at once while undo_disabled > 0.  A call that
\* records frees redo_queue, and with it the Group that is replayed: what
\* undo() reads of the Group after that is read from freed memory.
UndoOperation(r, op) ==
    LET b == r.m.b
    IN  IF r.m.p.redo_queue = <<>> /\ r.m.ub THEN [r EXCEPT !.m = Segv(@)]
        ELSE
        CASE op.type = "DELETE" ->
               LET start == IterAt(b, op.start)
                   b1 == gtk_text_buffer_insert(b, start, op.text)
                   end == start + Len(op.text)
                   b2 == gtk_text_buffer_remove_all_tags(b1, IterAt(b1, op.start), end)
               IN  [[r EXCEPT !.m = wp_undo_insert_text(@, start, op.text)]
                       EXCEPT !.m = IF @.st /= "run" THEN @
                                    ELSE IF @.p.redo_queue = <<>> /\ @.ub THEN Segv(@)
                                    ELSE [@ EXCEPT !.b = wp_undo_apply_saved_tags(b2, op.tags)],
                              !.pos = IF op.backspace THEN op.end ELSE op.start]
          [] op.type = "INSERT" ->
               LET start == IterAt(b, op.start)
                   end == IterAt(b, op.end)
                   r1 == IF TogglesTag(b, start, BULLET)
                         THEN BulletLoop(r, start)
                         ELSE [r EXCEPT !.pos = op.start]
               IN  IF r1.m.st /= "run" THEN r1
                   ELSE [r1 EXCEPT !.m = [wp_undo_delete_range(@, start, end)
                                             EXCEPT !.b = gtk_text_buffer_delete(b, start, end)]]
          [] op.type = "TAG" ->
               LET b1 == gtk_text_buffer_select_range(b, op.start, op.end)
                   b2 == gtk_text_buffer_remove_all_tags(b1, op.start, op.end)
               IN  [r EXCEPT !.m.b = wp_undo_apply_saved_tags(b2, op.orig_tags)]
          [] op.type = "SELECT" ->
               [r EXCEPT !.m.b = wp_undo_redo_selection(b, r.m.p.undo_queue, op, TRUE)]
          [] op.type = "FMT" ->
               IF ~op.rich_text
               THEN LET b1 == wp_undo_apply_saved_tags(b, op.tags)
                    IN  [r EXCEPT !.m = Emit([@ EXCEPT !.b =
                                                gtk_text_buffer_place_cursor(b1, b1.cursor)],
                                             "fmt_changed", TRUE),
                                  !.pos = -1]
               ELSE [r EXCEPT !.m = Emit([@ EXCEPT !.b =
                                            gtk_text_buffer_remove_all_tags(b, 0, DocLen(b))],
                                         "fmt_changed", FALSE)]
          [] op.type = "SIMPLE_JUSTIFY" ->
               LET b1 == IF op.tag /= NULL
                         THEN gtk_text_buffer_remove_tag(b, op.tag, op.start, op.end)
                         ELSE b
               IN  [r EXCEPT !.m.b = IF op.orig_tag /= NULL
                                     THEN gtk_text_buffer_apply_tag(b1, op.orig_tag,
                                                                    op.start, op.end)
                                     ELSE b1]
          [] op.type = "LAST_LINE_JUSTIFY" ->
               [r EXCEPT !.m = Emit(@, "last_line_justify", op.old_line_justify)]

\* the loop run from the last node of the list to its first
RECURSIVE UndoLoop_from_tail(_, _)
UndoLoop_from_tail(r, lact) ==
    IF lact = <<>> \/ r.m.st /= "run" THEN r
    ELSE UndoLoop_from_tail(UndoOperation(r, lact[Len(lact)]), Take(lact, Len(lact) - 1))

RECURSIVE UndoLoop(_, _)
UndoLoop(r, lact) ==
    IF lact = <<>> \/ r.m.st /= "run" THEN r
    ELSE UndoLoop(UndoOperation(r, Head(lact)), Tail(lact))

\* the end of wp_undo_undo and wp_undo_redo without the cursor placed
ReplayEnd_unplaced(r) == wp_undo_thaw(gtk_text_buffer_end_user_action(r.m))

\* the end of wp_undo_undo and wp_undo_redo: place the cursor, end the user
\* action, thaw
ReplayEnd(r) ==
    LET m1 == IF r.pos /= -1
              THEN [r.m EXCEPT !.b = gtk_text_buffer_place_cursor(@, r.pos)]
              ELSE r.m
    IN  wp_undo_thaw(gtk_text_buffer_end_user_action(m1))

\* the head of undo_queue unlinked and not linked into redo_queue
UndoMoveHead_dropped(m) ==
    [m EXCEPT !.p.undo_queue = Tail(@), !.p.undo_queue_len = @ - 1]

\* the head of undo_queue is unlinked and becomes the head of redo_queue
UndoMoveHead(m) ==
    [m EXCEPT !.p.undo_queue = Tail(@),
              !.p.redo_queue = <<Head(m.p.undo_queue)>> \o @,
              !.p.undo_queue_len = @ - 1,
              !.p.current_op = IF @ = "undo_head" THEN "redo_head" ELSE @]

\* wp_undo_undo past its early return
UndoReplay(m) ==
    LET lact == Head(m.p.undo_queue)
        m1 == gtk_text_buffer_begin_user_action(wp_undo_freeze(m))
        m2 == UndoMoveHead(m1)
        r == UndoLoop([m |-> m2, pos |-> -1], lact)
    IN  IF r.m.st /= "run" THEN r.m
        ELSE
        LET m3 == wp_undo_reset_mergeable(ReplayEnd(r))
        IN  IF m3.st /= "run" THEN m3 ELSE wp_undo_send_signals(m3)

\* wp_undo_undo with the early return taken after the freeze
wp_undo_undo_late_return(m) ==
    IF m.p.undo_queue = <<>> \/ m.p.low_mem THEN wp_undo_freeze(m) ELSE UndoReplay(m)

wp_undo_undo(m) ==
    IF m.p.undo_queue = <<>> \/ m.p.low_mem THEN m ELSE UndoReplay(m)

\* one iteration of the loop of wp_undo_redo.  ub: whether the read of
\* op->tags->data through a NULL op->tags faults
RedoOperation(r, op, ub) ==
    LET b == r.m.b
        r1 ==
        \* the buffer's handlers report the deletion and the insertion, as
        \* they do in undo(); the Group that redo() replays is in undo_queue
        CASE op.type = "DELETE" ->
               [r EXCEPT !.m = [wp_undo_delete_range(@, IterAt(b, op.start), IterAt(b, op.end))
                                   EXCEPT !.b = gtk_text_buffer_delete(
                                                    b, IterAt(b, op.start), IterAt(b, op.end))],
                         !.pos = IF op.backspace THEN op.end ELSE op.start]
          [] op.type = "INSERT" ->
               LET b1 == gtk_text_buffer_insert(b, IterAt(b, op.start), op.text)
               IN  [r EXCEPT !.m = [wp_undo_insert_text(@, IterAt(b, op.start), op.text)
                                       EXCEPT !.b = wp_undo_apply_saved_tags(b1, op.tags)],
                             !.pos = op.end]
          [] op.type = "TAG" ->
               IF op.tags = <<>> /\ ub THEN [r EXCEPT !.m.st = "segv"]
               ELSE LET b1 == gtk_text_buffer_select_range(b, op.start, op.end)
                    IN  [r EXCEPT !.m.b = wp_undo_apply_saved_tags(b1, op.tags)]
          [] op.type = "SELECT" ->
               [r EXCEPT !.m.b = wp_undo_redo_selection(b, r.m.p.redo_queue, op, TRUE)]
          [] op.type = "FMT" ->
               IF op.rich_text
               THEN [r EXCEPT !.m = Emit([@ EXCEPT !.b = wp_undo_skip_bullet_at_cursor(
                                                wp_undo_apply_saved_tags(b, op.tags))],
                                         "fmt_changed", TRUE)]
               ELSE [r EXCEPT !.m = Emit([@ EXCEPT !.b =
                                            gtk_text_buffer_remove_all_tags(b, 0, DocLen(b))],
                                         "fmt_changed", FALSE)]
          [] op.type = "SIMPLE_JUSTIFY" ->
               LET b1 == IF op.orig_tag /= NULL
                         THEN gtk_text_buffer_remove_tag(b, op.orig_tag, op.start, op.end)
                         ELSE b
               IN  [r EXCEPT !.m.b = IF op.tag /= NULL
                                     THEN gtk_text_buffer_apply_tag(b1, op.tag, op.start, op.end)
                                     ELSE b1]
          [] op.type = "LAST_LINE_JUSTIFY" ->
               [r EXCEPT !.m = Emit(@, "last_line_justify", op.new_line_justify)]
    IN  [r1 EXCEPT !.m = IF @.st /= "run" THEN @ ELSE [@ EXCEPT !.p.current_op = NULL]]

RECURSIVE RedoLoop(_, _, _)
RedoLoop(r, lact, ub) ==
    IF lact = <<>> \/ r.m.st /= "run" THEN r
    ELSE RedoLoop(RedoOperation(r, Head(lact), ub), Tail(lact), ub)

\* what the queue node's data pointer reaches after g_slist_reverse of the
\* Group's list: data still points to the node that was the head and is now
\* the last node of the list
AfterReverse(lact) == IF lact = <<>> THEN lact ELSE <<Head(lact)>>

\* the head of redo_queue is unlinked and becomes the head of undo_queue;
\* its list is reversed in place for the replay
RedoMoveHead(m) ==
    [m EXCEPT !.p.redo_queue = Tail(@),
              !.p.undo_queue = <<AfterReverse(Head(m.p.redo_queue))>> \o @,
              !.p.undo_queue_len = @ + 1]

\* wp_undo_redo past its early return
RedoReplay(m, ub) ==
    LET lact == Head(m.p.redo_queue)
        m1 == gtk_text_buffer_begin_user_action(wp_undo_freeze(m))
        m2 == RedoMoveHead(m1)
        r == RedoLoop([m |-> m2, pos |-> -1], Reverse(lact), ub)
    IN  IF r.m.st /= "run" THEN r.m
        ELSE LET m3 == wp_undo_reset_mergeable(ReplayEnd(r))
             IN  IF m3.st /= "run" THEN m3 ELSE wp_undo_send_signals(m3)

wp_undo_redo(m, ub) ==
    IF m.p.redo_queue = <<>> \/ m.p.low_mem THEN m ELSE RedoReplay(m, ub)

\* set_property for PROP_LOW_MEM
\* wp_undo_set_property, PROP_UNDO_LEVEL.  When the level is lowered by more
\* than the redo queue holds, the redo queue is freed and the rest is taken
\* from the undo queue: tmp is then looked up in the freed redo queue
\* (g_slist_nth of NULL is NULL) and tmp->next is a NULL dereference.
\* current_op is not touched: it is left pointing into the freed undo queue
wp_undo_set_undo_levels(m, new_size) ==
    LET size == m.p.max_undo_level - new_size
        qsize == Len(m.p.redo_queue)
        m1 == IF size <= 0 THEN m
              ELSE IF qsize > size
              THEN [m EXCEPT !.p.redo_queue = TruncateAfterNth(@, qsize - size - 1)]
              ELSE LET m2 == [m EXCEPT !.p.redo_queue = wp_undo_free_op_list(@)]
                       rest == size - qsize
                   IN  IF rest > 0
                       THEN IF m2.p.undo_queue_len > rest
                            THEN [m2 EXCEPT !.st = "segv"]
                            ELSE [m2 EXCEPT !.p.undo_queue = wp_undo_free_op_list(@),
                                            !.p.undo_queue_len = 0,
                                            !.p.current_op =
                                                IF @ = NULL THEN NULL ELSE FREED]
                       ELSE m2
    IN  IF m1.st /= "run" THEN m1
        ELSE wp_undo_send_signals([m1 EXCEPT !.p.max_undo_level = new_size])

\* the low-memory property stored without the reset
wp_undo_set_low_memory_flag_only(m, value) == [m EXCEPT !.p.low_mem = value]

wp_undo_set_low_memory(m, value) ==
    LET m1 == [m EXCEPT !.p.low_mem = value]
    IN  IF value THEN wp_undo_reset(m1) ELSE m1

-----------------------------------------------------------------------------
(* The calls as actions.  A record call is made by the buffer's handler    *)
(* before it changes the buffer, so a record action is the engine call     *)
(* followed by the buffer change it reports.  Every action takes the name  *)
(* s of the specification that uses it: Limits(s) bounds the state space   *)
(* and History(s, call, m) is what the specification remembers.            *)

\* the number of Operations of all Groups of a queue
TotalOps(queue) ==
    LET n[i \in 0..Len(queue)] == IF i = 0 THEN 0 ELSE n[i - 1] + Len(queue[i])
    IN  n[Len(queue)]

\* the part of the state space that is explored: lim gives the longest
\* text, the most Groups and the most Operations in both queues, the most
\* Operations in each queue and how far undo_queue_len is followed away from
\* the number of Groups; an Operation of the undo queue holds lim.tags tag
\* changes at most, MaxTags where lim does not say
WithinBounds(m, lim) ==
    /\ DocLen(m.b) <= lim.doc
    /\ Len(m.p.undo_queue) + Len(m.p.redo_queue) <= lim.groups
    /\ TotalOps(m.p.undo_queue) + TotalOps(m.p.redo_queue) <= lim.ops
    /\ TotalOps(m.p.undo_queue) <= lim.each
    /\ TotalOps(m.p.redo_queue) <= lim.each
    /\ \A i \in 1..Len(m.p.undo_queue) : \A j \in 1..Len(m.p.undo_queue[i]) :
            Len(m.p.undo_queue[i][j].tags)
                <= IF "tags" \in DOMAIN lim THEN lim.tags ELSE MaxTags
    /\ m.p.undo_queue_len >= 0 - lim.drift
    /\ m.p.undo_queue_len <= lim.groups + lim.drift

\* a call takes the machine to m and the history to h
Step(m, lim, h) ==
    /\ status = "run"
    /\ WithinBounds(m, lim)
    /\ priv' = m.p
    /\ buffer' = m.b
    /\ emitted' = m.e
    /\ status' = m.st
    /\ hist' = h

\* the buffer after wp_text_buffer_load_document_end: a document of one
\* letter was loaded with the engine frozen, the cursor is at its start
LoadedBuffer ==
    [chars |-> <<[c |-> "a", t |-> {}]>>, cursor |-> 0, bound |-> 0, user_action_count |-> 0]

\* the engine after construction with the buffer b and the history h
InitWith(b, h) ==
    /\ priv = InitPriv
    /\ buffer = b
    /\ emitted = <<>>
    /\ status = "run"
    /\ hist = h

M0 == Machine(priv, buffer)

\* what a call of specification s can meet: an access through a freed
\* pointer faults or does not, and where allocation failure is followed an
\* allocation of the call returns NULL
Env(s) ==
    {[ub |-> u, oom |-> o] :
        u \in IF priv.current_op = FREED \/ priv.undo_disabled < 0 THEN BOOLEAN ELSE {FALSE},
        o \in IF s = "nomemory" THEN {NULL, "op", "text"} ELSE {NULL}}

\* the machine a call made in env works on
In(env) == [M0 EXCEPT !.ub = env.ub, !.oom = env.oom]

\* the handler of insert-text: record, then insert
InsertTextAt(m0, pos, text) ==
    LET m == wp_undo_insert_text(m0, pos, text)
    IN  [m EXCEPT !.b = gtk_text_buffer_insert(@, pos, text)]

\* wp_text_buffer_update_selection: the selection is reported
wp_text_buffer_update_selection(m) ==
    wp_undo_selection_changed(m, SelectionBounds(m.b)[1], SelectionBounds(m.b)[2])

\* the handler of delete-range: record, delete, report the selection
DeleteRangeAt(m0, start, end) ==
    LET m == wp_undo_delete_range(m0, start, end)
    IN  wp_text_buffer_update_selection([m EXCEPT !.b = gtk_text_buffer_delete(@, start, end)])

\* the handlers of apply-tag and remove-tag: record, then change the tag
ApplyTagAt(start, end, tag, enable) ==
    LET m == wp_undo_apply_tag(M0, start, end, tag, enable)
    IN  [m EXCEPT !.b = SetTag(@, tag, start, end, enable)]

\* apply_justification_tag: the tags are changed with the engine frozen,
\* then the change is recorded
SimpleJustificationAt(start, end, orig_tag, tag) ==
    LET b1 == IF orig_tag /= NULL
              THEN gtk_text_buffer_remove_tag(buffer, orig_tag, start, end)
              ELSE buffer
        b2 == IF tag /= NULL THEN gtk_text_buffer_apply_tag(b1, tag, start, end) ELSE b1
    IN  wp_undo_simple_justification(Machine(priv, b2), start, end, orig_tag, tag)

\* the handler of mark-set: the marks are moved, the selection is reported
SelectionChangedAt(ins, bnd) ==
    wp_text_buffer_update_selection(Machine(priv, gtk_text_buffer_select_range(buffer, ins, bnd)))

\* wp_text_buffer_enable_rich_text: record, then drop the tags when rich
\* text is switched off
FormatChangedAt(rich_text) ==
    LET m == wp_undo_format_changed(M0, rich_text)
    IN  IF rich_text THEN m
        ELSE [m EXCEPT !.b = gtk_text_buffer_remove_all_tags(@, 0, DocLen(@))]

\* the ranges the user deletes with Backspace and with Delete
KeyRanges ==
    {r \in {<<buffer.cursor - 1, buffer.cursor>>, <<buffer.cursor, buffer.cursor + 1>>} :
        r[1] >= 0 /\ r[2] <= DocLen(buffer)}

\* the whole text, when there is some
WholeText == {r \in {<<0, DocLen(buffer)>>} : DocLen(buffer) > 0}

\* the calls that record
RecordCalls ==
    {"insert_text", "delete_range", "apply_tag", "simple_justification",
     "selection_changed", "format_changed", "last_line_justify"}

\* the bounds of each specification
Limits(s) ==
    CASE s = "core" ->
            [doc |-> MaxDocLen, groups |-> MaxOps, ops |-> MaxOps, each |-> MaxOps,
             drift |-> MaxDrift]
      [] s = "record" ->
            [doc |-> MaxDocLen, groups |-> 2 * MaxRecorded, ops |-> 2 * MaxRecorded,
             each |-> MaxRecorded, drift |-> MaxDrift]
      [] s = "suppress" ->
            [doc |-> MaxFrozenLen, groups |-> MaxRecorded, ops |-> MaxRecorded,
             each |-> MaxRecorded, drift |-> MaxDrift]
      [] s = "lowmem" ->
            [doc |-> MaxDocLen, groups |-> MaxOps, ops |-> MaxOps, each |-> MaxOps,
             drift |-> MaxDrift]
      [] s = "capacity" ->
            [doc |-> 2 * (MAX_UNDO_LEVEL + CapExtra), groups |-> 2 * MAX_UNDO_LEVEL,
             ops |-> 2 * MAX_UNDO_LEVEL, each |-> MAX_UNDO_LEVEL, drift |-> MaxDrift]
      [] s = "queue" ->
            [doc |-> MaxFrozenLen, groups |-> DEF_UNDO_LEVEL + MaxDrift,
             ops |-> DEF_UNDO_LEVEL + MaxDrift, each |-> DEF_UNDO_LEVEL + MaxDrift,
             drift |-> MaxDrift]
      [] s = "roundtrip" ->
            [doc |-> MaxDocLen, groups |-> MaxOps, ops |-> MaxOps + 1,
             each |-> MaxOps + 1, drift |-> MaxDrift]
      [] s = "levels" ->
            [doc |-> MaxShrink + 1, groups |-> MaxShrink + 1, ops |-> MaxShrink + 1,
             each |-> MaxShrink + 1, drift |-> MaxDrift]
      [] s = "merge" ->
            [doc |-> Len(HELLO_WORLD), groups |-> Len(HELLO_WORLD),
             ops |-> Len(HELLO_WORLD), each |-> Len(HELLO_WORLD), drift |-> MaxDrift]
      [] s = "spans" ->
            [doc |-> SpanLen, groups |-> MaxOps, ops |-> MaxOps, each |-> MaxOps,
             drift |-> MaxDrift, tags |-> SpanLen * Len(TagOrder)]
      [] s = "order" ->
            [doc |-> MaxDocLen, groups |-> MaxOps - 1, ops |-> MaxOps + 1,
             each |-> MaxOps + 1, drift |-> MaxDrift]
      [] s = "keys" ->
            [doc |-> SpanLen, groups |-> SpanLen, ops |-> SpanLen, each |-> SpanLen,
             drift |-> MaxDrift, tags |-> SpanLen]
      [] s = "nomemory" ->
            [doc |-> MaxDocLen, groups |-> MaxOps, ops |-> MaxOps, each |-> MaxOps,
             drift |-> MaxDrift]
      [] s = "replay" ->
            [doc |-> MaxDocLen, groups |-> MaxOps, ops |-> MaxOps, each |-> MaxOps,
             drift |-> MaxDrift]
      [] s = "bullets" ->
            [doc |-> MaxDocLen + MaxOps, groups |-> MaxOps, ops |-> MaxOps, each |-> MaxOps,
             drift |-> MaxDrift]
      [] s = "format" ->
            [doc |-> MaxDocLen + MaxOps, groups |-> MaxOps, ops |-> MaxOps + 1,
             each |-> MaxOps + 1, drift |-> MaxDrift]
      [] s = "select" ->
            [doc |-> MaxDocLen + MaxRecorded, groups |-> MaxOps + 1, ops |-> MaxOps + 1,
             each |-> MaxOps + 1, drift |-> MaxDrift]

\* what each specification remembers after the call that takes the machine
\* to m.
\*   core: the last call and whether it changed the engine or the buffer
\*   record: the last call, whether it changed the undo queue, and whether
\*     there was something to redo before it
\*   suppress: the last call, whether it changed the engine, and how many
\*     more freeze() than thaw() calls have been made
\*   lowmem: the last call and whether there was something to undo and to
\*     redo before it
\*   capacity: the last call, the text of the buffer after each insertion,
\*     the number of undo() calls that found something to undo, and whether
\*     the last call was one of them
\*   queue: the last call
\*   roundtrip: the buffer before the first undo() and the numbers of
\*     undo() and redo() calls made
\*   levels: the last call
\*   keys: the last call, and whether the last deletion took the
\*     character before the insert mark
\*   order: the last call, the Group as the transaction recorded it, the
\*     number of undo() calls up to 2, and the buffer after the first of them
\*   spans: the last call and the characters of the buffer, with their
\*     tags, before the deletion
\*   merge: the last call, the text that is typed and how many of its
\*     characters have been typed
\*   nomemory: the last call, whether an allocation failed in it, and the
\*     undo queue as it was when the last transaction was opened
\*   replay: the last call
\*   bullets: the last call
\*   format: the last call
\*   select: the last call
History(s, call, m) ==
    CASE s = "core" ->
            [call |-> call, changed |-> m.p /= priv \/ m.b /= buffer]
      [] s = "record" ->
            [call |-> call,
             recorded |-> m.p.undo_queue /= priv.undo_queue,
             had_redo |-> priv.redo_queue /= <<>>]
      [] s = "suppress" ->
            [call |-> call,
             changed |-> m.p /= priv,
             balance |-> CASE call = "freeze" -> hist.balance + 1
                           [] call = "thaw" -> hist.balance - 1
                           [] OTHER -> hist.balance]
      [] s = "lowmem" ->
            [call |-> call,
             had_undo |-> priv.undo_queue /= <<>>,
             had_redo |-> priv.redo_queue /= <<>>]
      [] s = "capacity" ->
            [call |-> call,
             recorded |-> IF call = "insert_text"
                          THEN Append(hist.recorded, BufferText(m.b))
                          ELSE hist.recorded,
             undone |-> IF call = "undo" /\ wp_undo_can_undo(priv)
                        THEN hist.undone + 1
                        ELSE hist.undone,
             succeeded |-> call = "undo" /\ wp_undo_can_undo(priv)]
      [] s = "queue" ->
            [call |-> call]
      [] s = "roundtrip" ->
            [saved |-> IF call = "undo" /\ hist.undos = 0 THEN buffer.chars ELSE hist.saved,
             undos |-> IF call = "undo" THEN hist.undos + 1 ELSE hist.undos,
             redos |-> IF call = "redo" THEN hist.redos + 1 ELSE hist.redos]
      [] s = "levels" ->
            [call |-> call]
      [] s = "keys" ->
            [call |-> call,
             backward |-> IF call = "delete_range" THEN m.b.cursor < buffer.cursor
                          ELSE hist.backward]
      [] s = "order" ->
            [call |-> call,
             recorded |-> IF call = "end_group" THEN Head(m.p.undo_queue) ELSE hist.recorded,
             undos |-> IF call = "undo" THEN Min(hist.undos + 1, 2) ELSE hist.undos,
             first |-> IF call = "undo" /\ hist.undos = 0 THEN m.b.chars ELSE hist.first]
      [] s = "spans" ->
            [call |-> call,
             saved |-> IF call = "delete_range" THEN buffer.chars ELSE hist.saved]
      [] s = "merge" ->
            [call |-> call,
             text |-> hist.text,
             typed |-> IF call = "insert_text" THEN hist.typed + 1 ELSE hist.typed]
      [] s = "nomemory" ->
            [call |-> call,
             failed |-> \E i \in 1..Len(m.e) : m.e[i].sig = "no_memory",
             base |-> IF call = "start_group" THEN priv.undo_queue ELSE hist.base]
      [] s = "replay" ->
            [call |-> call]
      [] s = "bullets" ->
            [call |-> call]
      [] s = "format" ->
            [call |-> call]
      [] s = "select" ->
            [call |-> call]

\* a call of specification s
Call(s, call, m) == Step(m, Limits(s), History(s, call, m))

\* transactions are not nested, as the buffer opens them
StartGroup(s) == priv.group = 0 /\ Call(s, "start_group", wp_undo_start_group(M0))

EndGroup(s) == priv.group > 0 /\ Call(s, "end_group", wp_undo_end_group(M0))

\* one of texts is typed or pasted at the insert mark
InsertText(s, texts) ==
    \E text \in texts, env \in Env(s) :
        Call(s, "insert_text", InsertTextAt(In(env), buffer.cursor, text))

DeleteRange(s) ==
    \E r \in KeyRanges, env \in Env(s) :
        Call(s, "delete_range", DeleteRangeAt(In(env), r[1], r[2]))

\* a tag applied to or removed from the whole text
ApplyTag(s) ==
    \E r \in WholeText, enable \in BOOLEAN :
        Call(s, "apply_tag", ApplyTagAt(r[1], r[2], BOLD, enable))

\* wp_text_buffer_set_format opens a WP_UNDO_TAG Operation
OpenTag(s) ==
    \E r \in WholeText : Call(s, "apply_tag", wp_undo_apply_tag(M0, r[1], r[2], NULL, FALSE))

SimpleJustification(s) ==
    \E r \in WholeText :
        Call(s, "simple_justification", SimpleJustificationAt(r[1], r[2], NULL, CENTER))

\* the whole text is selected, or the selection is dropped
SelectionChanged(s) ==
    \E r \in WholeText :
        \E ins \in {r[1], r[2]} : Call(s, "selection_changed", SelectionChangedAt(ins, r[2]))

\* a range of the text is selected
SelectRange(s) ==
    \E ins \in 0..DocLen(buffer), bnd \in 0..DocLen(buffer) :
        ins /= bnd /\ Call(s, "selection_changed", SelectionChangedAt(ins, bnd))

\* the selected text is deleted
DeleteSelected(s) ==
    \E env \in Env(s) :
        Call(s, "delete_range",
             DeleteRangeAt(In(env), SelectionBounds(buffer)[1], SelectionBounds(buffer)[2]))

FormatChanged(s) ==
    \E rich_text \in BOOLEAN : Call(s, "format_changed", FormatChangedAt(rich_text))

LastLineJustify(s) ==
    \E env \in Env(s) :
        Call(s, "last_line_justify", wp_undo_last_line_justify(In(env), 0, 1))

Undo(s) == \E env \in Env(s) : Call(s, "undo", wp_undo_undo(In(env)))

Redo(s) == \E ub \in BOOLEAN : Call(s, "redo", wp_undo_redo(M0, ub))

Reset(s) == \E env \in Env(s) : Call(s, "reset", wp_undo_reset(In(env)))

ResetMergeable(s) ==
    \E env \in Env(s) : Call(s, "reset_mergeable", wp_undo_reset_mergeable(In(env)))

Freeze(s) == Call(s, "freeze", wp_undo_freeze(M0))

Thaw(s) == Call(s, "thaw", wp_undo_thaw(M0))

SetLowMemory(s) ==
    \E value \in BOOLEAN : Call(s, "set_low_memory", wp_undo_set_low_memory(M0, value))

SetUndoLevels(s, levels) ==
    \E level \in levels : Call(s, "set_undo_levels", wp_undo_set_undo_levels(M0, level))

-----------------------------------------------------------------------------
(* Spec: transactions, typing at the insert mark, undo, redo, reset,       *)
(* reset_mergeable and the low-memory property in any order.               *)

\* what is typed: a letter, a space, or a word pasted into the empty buffer
Texts == {<<"a">>, <<SPACE>>} \cup {t \in {<<"H", "i">>} : DocLen(buffer) = 0}

Init == InitWith(InitBuffer, [call |-> "new", changed |-> FALSE])

Next ==
    \/ StartGroup("core")
    \/ EndGroup("core")
    \/ InsertText("core", Texts)
    \/ Undo("core")
    \/ Redo("core")
    \/ Reset("core")
    \/ ResetMergeable("core")
    \/ SetLowMemory("core")

Spec == Init /\ [][Next]_vars

\* a Group with the mergeable flag of its most recent Operation cleared
Closed(group) == [group EXCEPT ![1].mergeable = FALSE]

\* the Group whose only Operation is the insertion of "Hi" at offset 0
IsHiGroup(group) ==
    /\ Len(group) = 1
    /\ group[1].type = "INSERT"
    /\ group[1].start = 0
    /\ group[1].text = <<"H", "i">>

\* C5: an insertion recorded in an open transaction after the first
\* Operation of that transaction joins the Group of the first, whatever was
\* called since: the undo queue gets no new Group.
C5_GroupAtomicity ==
    [][(/\ hist'.call = "insert_text"
        /\ priv.group > 0
        /\ ~priv.first_in_group
        /\ priv.undo_queue /= <<>>) =>
            Len(priv'.undo_queue) = Len(priv.undo_queue)
      ]_vars

C7_NoOp ==
    [][/\ (hist'.call = "undo" /\ (priv.undo_queue = <<>> \/ priv.low_mem)) =>
            /\ buffer' = buffer
            /\ priv' = priv
            /\ emitted' = <<>>
            /\ status' = "run"
       /\ (hist'.call = "redo" /\ (priv.redo_queue = <<>> \/ priv.low_mem)) =>
            /\ buffer' = buffer
            /\ priv' = priv
            /\ emitted' = <<>>
            /\ status' = "run"
      ]_vars

\* C7 happens: undo() or redo() was called in low memory on a buffer with
\* text, in a transaction, and changed nothing
C7_Witness ==
    /\ hist.call \in {"undo", "redo"}
    /\ ~hist.changed
    /\ priv.low_mem
    /\ priv.group > 0
    /\ DocLen(buffer) > 0

\* C10: reset() leaves both queues empty and can_undo() and can_redo()
\* false, in a transaction or outside one, and the first insertion recorded
\* after a reset() makes a Group of its own with one new Operation that
\* holds the inserted text only (in low memory it records nothing).
C10_Reset ==
    [][/\ hist'.call = "reset" =>
            /\ priv'.undo_queue = <<>>
            /\ priv'.redo_queue = <<>>
            /\ ~wp_undo_can_undo(priv')
            /\ ~wp_undo_can_redo(priv')
       /\ (hist.call = "reset" /\ hist'.call = "insert_text" /\ priv.low_mem) =>
            priv'.undo_queue = <<>>
       /\ (hist.call = "reset" /\ hist'.call = "insert_text" /\ ~priv.low_mem) =>
            /\ Len(priv'.undo_queue) = 1
            /\ Len(Head(priv'.undo_queue)) = 1
            /\ Head(priv'.undo_queue)[1].start = buffer.cursor
            /\ Len(Head(priv'.undo_queue)[1].text) = DocLen(buffer') - DocLen(buffer)
      ]_vars

\* C10 happens: a letter typed right after the text that was recorded
\* before a reset() made in a transaction
C10_Witness ==
    /\ hist.call = "insert_text"
    /\ priv.group > 0
    /\ BufferText(buffer) = <<"a", "a">>
    /\ Len(priv.undo_queue) = 1 /\ Len(Head(priv.undo_queue)) = 1
    /\ Head(priv.undo_queue)[1].start = 1
    /\ Head(priv.undo_queue)[1].text = <<"a">>

\* the field that keeps the last status signalled by sig
SentField(p, sig) == IF sig = "can_undo" THEN p.undo_sent ELSE p.redo_sent

\* the value carried by the emission of sig before the i-th signal of the
\* call that emitted e: an earlier signal of the same call, or the last
\* status signalled before the call (FALSE after construction)
PreviousCarried(p, e, i, sig) ==
    LET J == {j \in 1..(i - 1) : e[j].sig = sig}
    IN  IF J = {} THEN SentField(p, sig) /= 0
        ELSE e[CHOOSE j \in J : \A k \in J : k <= j].arg /= 0

\* C11: can_undo and can_redo are emitted only with a value that differs
\* from the value carried by the previous emission of the same signal.
C11_NoRedundantSignal ==
    [][\A i \in 1..Len(emitted') :
            emitted'[i].sig \in {"can_undo", "can_redo"} =>
                (emitted'[i].arg /= 0) /= PreviousCarried(priv, emitted', i, emitted'[i].sig)
      ]_vars

-----------------------------------------------------------------------------
(* SpecRecord: every record call, undo and redo in any order, in           *)
(* transactions and outside them, on a document that was loaded.           *)

RecordNext ==
    \/ StartGroup("record")
    \/ EndGroup("record")
    \/ InsertText("record", {<<"a">>})
    \/ DeleteRange("record")
    \/ ApplyTag("record")
    \/ OpenTag("record")
    \/ SimpleJustification("record")
    \/ SelectionChanged("record")
    \/ FormatChanged("record")
    \/ LastLineJustify("record")
    \/ Undo("record")
    \/ Redo("record")

SpecRecord ==
    InitWith(LoadedBuffer, [call |-> "new", recorded |-> FALSE, had_redo |-> FALSE]) /\ [][RecordNext]_vars

\* C2: when a record call has put a new Operation into the undo queue, the
\* redo queue is empty and can_redo() is false on its return, whatever was
\* undone before.
C2_RedoInvalidation ==
    (hist.call \in RecordCalls /\ hist.recorded) =>
        (priv.redo_queue = <<>> /\ ~wp_undo_can_redo(priv))

\* C2 happens: a record call made after an undo() recorded an Operation
C2_Witness ==
    /\ hist.call \in RecordCalls
    /\ hist.recorded
    /\ hist.had_redo
    /\ priv.undo_queue /= <<>>
    /\ priv.redo_queue = <<>>

\* C24: every record call (recording is never suppressed here and no
\* allocation fails) puts a new Operation into the head Group or changes
\* the current Operation; a selection that a mergeable SELECT Operation
\* takes in may leave it as it was.
C24_RecordNeverDropped ==
    [][(hist'.call \in RecordCalls /\ status' = "run") =>
            \/ priv'.undo_queue /= priv.undo_queue
            \/ /\ hist'.call = "selection_changed"
               /\ priv.current_op = "undo_head"
               /\ CurrentOp(priv).type = "SELECT"
               /\ CurrentOp(priv).mergeable
      ]_vars

\* C36: a redo() of a Group that holds a TAG Operation returns, whether
\* tag changes were recorded into the Operation or not.
C36_RedoOfTagReturns ==
    [][(/\ hist'.call = "redo"
        /\ wp_undo_can_redo(priv) /\ ~priv.low_mem
        /\ priv.current_op /= FREED
        /\ \E i \in 1..Len(Head(priv.redo_queue)) : Head(priv.redo_queue)[i].type = "TAG") =>
            status' = "run"
      ]_vars

-----------------------------------------------------------------------------
(* SpecSuppress: every record call, freeze, thaw and the low-memory        *)
(* property in any order, in transactions and outside them.  thaw() is     *)
(* also called without a freeze() before it.                               *)

SuppressNext ==
    \/ StartGroup("suppress")
    \/ EndGroup("suppress")
    \/ InsertText("suppress", {<<"a">>})
    \/ DeleteRange("suppress")
    \/ ApplyTag("suppress")
    \/ SimpleJustification("suppress")
    \/ SelectionChanged("suppress")
    \/ FormatChanged("suppress")
    \/ LastLineJustify("suppress")
    \/ hist.balance < MaxNest /\ Freeze("suppress")
    \/ hist.balance > 0 - MaxNest /\ Thaw("suppress")
    \/ SetLowMemory("suppress")

SpecSuppress ==
    InitWith(InitBuffer, [call |-> "new", changed |-> FALSE, balance |-> 0]) /\ [][SuppressNext]_vars

C30_EnabledIffRecording == wp_undo_is_enabled(priv) <=> ~Disabled(priv)

-----------------------------------------------------------------------------
(* SpecLowMem: typing, transactions, undo and redo, and in low memory      *)
(* every other record call as well.                                        *)

LowMemNext ==
    \/ StartGroup("lowmem")
    \/ EndGroup("lowmem")
    \/ InsertText("lowmem", {<<"a">>})
    \/ priv.low_mem /\ DeleteRange("lowmem")
    \/ priv.low_mem /\ ApplyTag("lowmem")
    \/ priv.low_mem /\ SimpleJustification("lowmem")
    \/ priv.low_mem /\ SelectionChanged("lowmem")
    \/ priv.low_mem /\ FormatChanged("lowmem")
    \/ priv.low_mem /\ LastLineJustify("lowmem")
    \/ Undo("lowmem")
    \/ Redo("lowmem")
    \/ SetLowMemory("lowmem")

SpecLowMem ==
    InitWith(InitBuffer, [call |-> "new", had_undo |-> FALSE, had_redo |-> FALSE]) /\ [][LowMemNext]_vars

\* C9: while low memory is set both queues are empty and can_undo() and
\* can_redo() are false, whatever calls are made; setting it empties both
\* queues at once.
C9_LowMemory ==
    priv.low_mem =>
        /\ priv.undo_queue = <<>>
        /\ priv.redo_queue = <<>>
        /\ ~wp_undo_can_undo(priv)
        /\ ~wp_undo_can_redo(priv)

\* C9 happens: low memory was set with Groups in both queues
C9_Witness ==
    /\ hist.call = "set_low_memory"
    /\ priv.low_mem
    /\ hist.had_undo
    /\ hist.had_redo

-----------------------------------------------------------------------------
(* SpecCapacity: the undo level is set, max_undo_level + CapExtra          *)
(* transactions are recorded, each with one insertion that does not        *)
(* merge, and then undo() is called until it has nothing to undo.          *)

\* the levels tried
CapLevels == {MIN_UNDO_LEVEL, MIN_UNDO_LEVEL + 1}

\* an insertion that is not mergeable: a line break, or more than one letter
CapTexts == {<<NEWLINE>>, <<"a", "a">>}

\* undo() is called until one call has found nothing to undo
CapNext ==
    \/ hist.call = "new" /\ SetUndoLevels("capacity", CapLevels)
    \/ /\ hist.call \in {"set_undo_levels", "end_group"}
       /\ Len(hist.recorded) < priv.max_undo_level + CapExtra
       /\ StartGroup("capacity")
    \/ hist.call = "start_group" /\ InsertText("capacity", CapTexts)
    \/ hist.call = "insert_text" /\ EndGroup("capacity")
    \/ /\ \/ hist.call = "end_group" /\ Len(hist.recorded) = priv.max_undo_level + CapExtra
          \/ hist.call = "undo" /\ hist.succeeded
       /\ Undo("capacity")

SpecCapacity ==
    InitWith(InitBuffer, [call |-> "new", recorded |-> <<>>, undone |-> 0, succeeded |-> FALSE])
        /\ [][CapNext]_vars

\* C3: with max_undo_level = M, after M + CapExtra transactions of one
\* insertion each that does not merge, can_undo() is true; each undo() that
\* finds something to undo takes back the most recent transaction that is
\* not undone yet; exactly M of them do before can_undo() is false; and the
\* text of the CapExtra oldest transactions is then still in the buffer.
C3_CapacityScenario ==
    LET M == priv.max_undo_level
        n == Len(hist.recorded)
    IN  /\ (hist.call = "end_group" /\ n = M + CapExtra) => wp_undo_can_undo(priv)
        /\ hist.call = "undo" =>
            /\ n = M + CapExtra
            /\ hist.undone <= M
            /\ BufferText(buffer) = hist.recorded[n - hist.undone]
            /\ wp_undo_can_undo(priv) <=> hist.undone < M
            /\ Len(priv.undo_queue) = M - hist.undone
            /\ ~hist.succeeded => hist.undone = M

\* C3 happens: with the level above the default, undo() has taken back
\* max_undo_level transactions and the next undo() found nothing to undo
C3_Witness ==
    /\ hist.call = "undo"
    /\ ~hist.succeeded
    /\ priv.max_undo_level = MIN_UNDO_LEVEL + 1
    /\ hist.undone = priv.max_undo_level
    /\ ~wp_undo_can_undo(priv)
    /\ BufferText(buffer) = hist.recorded[CapExtra]

-----------------------------------------------------------------------------
(* SpecQueue: transactions, typing, the justification of the last line,    *)
(* undo, redo, reset and reset_mergeable in any order, with room for one   *)
(* Group more than the default max_undo_level.                             *)

QueueNext ==
    \/ StartGroup("queue")
    \/ EndGroup("queue")
    \/ InsertText("queue", {<<"a">>})
    \/ LastLineJustify("queue")
    \/ Undo("queue")
    \/ Redo("queue")
    \/ Reset("queue")
    \/ ResetMergeable("queue")

SpecQueue == InitWith(InitBuffer, [call |-> "new"]) /\ [][QueueNext]_vars

\* C4: the undo queue never holds more than max_undo_level Groups.
C4_CapacityInvariant == Len(priv.undo_queue) <= priv.max_undo_level

\* C39: undo_queue_len is the number of Groups in undo_queue.
C39_QueueLenIsCount == priv.undo_queue_len = Len(priv.undo_queue)

-----------------------------------------------------------------------------
(* SpecRoundTrip: insertions, deletions and tag changes are recorded in    *)
(* transactions; then undo() is called N times and redo() N times.         *)

RoundTripNext ==
    \/ hist.undos = 0 /\ StartGroup("roundtrip")
    \/ hist.undos = 0 /\ EndGroup("roundtrip")
    \/ hist.undos = 0 /\ priv.group > 0 /\ InsertText("roundtrip", {<<"a">>})
    \/ hist.undos = 0 /\ priv.group > 0 /\ DeleteRange("roundtrip")
    \/ hist.undos = 0 /\ priv.group > 0 /\ ApplyTag("roundtrip")
    \/ hist.redos = 0 /\ priv.group = 0 /\ wp_undo_can_undo(priv) /\ Undo("roundtrip")
    \/ hist.redos < hist.undos /\ Redo("roundtrip")

SpecRoundTrip ==
    InitWith(InitBuffer, [saved |-> <<>>, undos |-> 0, redos |-> 0]) /\ [][RoundTripNext]_vars

\* C1: after N undo() calls and N redo() calls the text and the tags of
\* the buffer are what they were before the first undo().
C1_RoundTrip ==
    (hist.undos > 0 /\ hist.redos = hist.undos /\ status = "run") =>
        buffer.chars = hist.saved

-----------------------------------------------------------------------------
(* Spec, continued: merging and the boundaries of transactions.            *)

C27_SignalsComplete ==
    /\ (priv.undo_sent /= 0) <=> wp_undo_can_undo(priv)
    /\ (priv.redo_sent /= 0) <=> wp_undo_can_redo(priv)

-----------------------------------------------------------------------------
(* SpecLevels: max_undo_level is raised and lowered while transactions     *)
(* are recorded, undone and redone.                                        *)

\* the levels max_undo_level is set to
ShrinkLevels == MIN_UNDO_LEVEL..(MIN_UNDO_LEVEL + MaxShrink)

LevelsNext ==
    \/ StartGroup("levels")
    \/ EndGroup("levels")
    \/ InsertText("levels", {<<NEWLINE>>})
    \/ Undo("levels")
    \/ Redo("levels")
    \/ SetUndoLevels("levels", ShrinkLevels)

SpecLevels == InitWith(InitBuffer, [call |-> "new"]) /\ [][LevelsNext]_vars

\* C12: setting max_undo_level returns, and when it lowers the level to n
\* both queues hold n Groups at most afterwards, the Groups that are left
\* in the redo queue are its head Groups, the undo queue is changed only
\* when the redo queue was emptied, and the undo queue keeps its most
\* recent Groups, as many of them as fit in n.
C12_ShrinkFits ==
    [][hist'.call = "set_undo_levels" =>
        /\ status' = "run"
        /\ priv'.max_undo_level < priv.max_undo_level =>
            LET n == priv'.max_undo_level
            IN  /\ Len(priv'.undo_queue) <= n
                /\ Len(priv'.redo_queue) <= n
                /\ priv'.redo_queue = Take(priv.redo_queue, Len(priv'.redo_queue))
                /\ priv'.undo_queue /= priv.undo_queue => priv'.redo_queue = <<>>
                /\ priv'.undo_queue = Take(priv.undo_queue, n)
      ]_vars

\* C25: current_op is NULL or points to the most recently recorded
\* Operation of the head Group of the undo queue, which is then not empty;
\* it never points to an Operation that was freed.
C25_CurrentOpValid ==
    /\ priv.current_op \in {NULL, "undo_head"}
    /\ priv.current_op = "undo_head" => priv.undo_queue /= <<>>

-----------------------------------------------------------------------------
(* SpecNoMemory: typing and the justification of the last line, in         *)
(* transactions and outside them, where an allocation of a record call     *)
(* can return NULL; undo and redo are called between transactions.         *)

NoMemoryNext ==
    \/ StartGroup("nomemory")
    \/ EndGroup("nomemory")
    \/ InsertText("nomemory", {<<"a">>})
    \/ LastLineJustify("nomemory")
    \/ priv.group = 0 /\ Undo("nomemory")
    \/ priv.group = 0 /\ Redo("nomemory")

SpecNoMemory ==
    InitWith(InitBuffer, [call |-> "new", failed |-> FALSE, base |-> <<>>])
        /\ [][NoMemoryNext]_vars

\* C13: when an allocation fails in a record call of a transaction that has
\* recorded an Operation, no_memory is emitted and the undo queue is left
\* as it was when the transaction was opened; and every record call made
\* after that in the same transaction returns and leaves both queues, with
\* their Operations, as they were.
C13_GroupDiscarded ==
    [][/\ (/\ hist'.call \in RecordCalls
           /\ hist'.failed
           /\ priv.group > 0 /\ ~priv.first_in_group /\ ~priv.disable_this_group) =>
            /\ \E i \in 1..Len(emitted') : emitted'[i].sig = "no_memory"
            /\ priv'.undo_queue = hist.base
       /\ (/\ hist'.call \in RecordCalls
           /\ priv.group > 0 /\ priv.disable_this_group) =>
            /\ status' = "run"
            /\ priv'.undo_queue = priv.undo_queue
            /\ priv'.redo_queue = priv.redo_queue
      ]_vars

\* C14: disable_this_group is set only while a transaction is open.
C14_DisabledInTransaction == priv.disable_this_group => priv.group > 0

\* C26: a record call in which an allocation fails, made with no
\* transaction open or before the open transaction has recorded anything,
\* leaves the undo queue as it was.
C26_EarlierGroupsKept ==
    [][(/\ hist'.call \in RecordCalls
        /\ hist'.failed
        /\ priv.group = 0 \/ priv.first_in_group) =>
            priv'.undo_queue = priv.undo_queue
      ]_vars

-----------------------------------------------------------------------------
(* SpecMerge: a text is typed one character at a time, at consecutive      *)
(* offsets, in one transaction, which is then undone and redone.           *)

\* the texts that are typed: "hello", "hello world" and every text of
\* letters and spaces up to MaxTypedLen characters
TypedTexts ==
    {HELLO, HELLO_WORLD}
        \cup UNION {[1..n -> {"a", SPACE}] : n \in 1..MaxTypedLen}

MergeNext ==
    \/ hist.call = "new" /\ StartGroup("merge")
    \/ /\ priv.group > 0
       /\ hist.typed < Len(hist.text)
       /\ InsertText("merge", {<<hist.text[hist.typed + 1]>>})
    \/ hist.typed = Len(hist.text) /\ EndGroup("merge")
    \/ hist.call = "end_group" /\ Undo("merge")
    \/ hist.call = "undo" /\ Redo("merge")

SpecMerge ==
    /\ \E text \in TypedTexts :
            InitWith(InitBuffer, [call |-> "new", text |-> text, typed |-> 0])
    /\ [][MergeNext]_vars

\* the offsets where a word of the text begins after white space
WordStarts(text) ==
    {i \in 1..(Len(text) - 1) : text[i] = SPACE /\ text[i + 1] /= SPACE}

\* the Operations of a Group in the order they were recorded
Recorded(group) == Reverse(group)

\* C15: the characters of a text typed one at a time at consecutive
\* offsets in one transaction are recorded as one Group of INSERT
\* Operations, one for every stretch of the text that ends where the next
\* word begins, whose texts concatenate to the text; "hello" gives one
\* Operation with the text "hello", "hello world" gives two.
C15_MergeResult ==
    (hist.typed = Len(hist.text) /\ hist.call = "insert_text") =>
        /\ Len(priv.undo_queue) = 1
        /\ LET ops == Recorded(Head(priv.undo_queue))
           IN  /\ \A k \in 1..Len(ops) :
                       /\ ops[k].type = "INSERT"
                       /\ ops[k].start = IF k = 1 THEN 0 ELSE ops[k - 1].end
                       /\ ops[k].text = Slice(hist.text, ops[k].start + 1, ops[k].end)
               /\ ops[Len(ops)].end = Len(hist.text)
               /\ {ops[k].start : k \in 2..Len(ops)} = WordStarts(hist.text)
               /\ hist.text = HELLO => Len(ops) = 1 /\ ops[1].text = HELLO
               /\ hist.text = HELLO_WORLD =>
                       /\ Len(ops) = 2
                       /\ ops[1].text \o ops[2].text = HELLO_WORLD

\* C15 happens: "hello world" was typed in an open transaction
C15_Witness ==
    /\ hist.text = HELLO_WORLD
    /\ hist.typed = Len(HELLO_WORLD)
    /\ hist.call = "insert_text"
    /\ priv.group > 0
    /\ BufferText(buffer) = HELLO_WORLD
    /\ Len(Head(priv.undo_queue)) = 2

-----------------------------------------------------------------------------
(* SpecSpans: in a loaded document whose characters carry any tags, a      *)
(* range is selected and deleted in a transaction, and the deletion is     *)
(* undone; or a WP_UNDO_TAG Operation is opened on any range of the        *)
(* document, the empty ranges included.                                    *)

\* the letters of the document
Letters == <<"a", "b", "c", "d">>

\* the tags of the spans
SpanTags == {BOLD, ITALIC, UNDERLINE}

\* the documents: SpanLen letters, each with any of the tags
SpanDocs ==
    {[k \in 1..SpanLen |-> [c |-> Letters[((k - 1) % Len(Letters)) + 1], t |-> tags[k]]] :
        tags \in [1..SpanLen -> SUBSET SpanTags]}

SpansNext ==
    \/ /\ hist.call = "new"
       /\ \E start \in 0..DocLen(buffer), end \in 0..DocLen(buffer) :
            /\ start <= end
            /\ Call("spans", "apply_tag", wp_undo_apply_tag(M0, start, end, NULL, FALSE))
    \/ hist.call = "new" /\ SelectRange("spans")
    \/ hist.call = "selection_changed" /\ StartGroup("spans")
    \/ hist.call = "start_group" /\ DeleteSelected("spans")
    \/ hist.call = "delete_range" /\ EndGroup("spans")
    \/ hist.call = "end_group" /\ Undo("spans")

SpecSpans ==
    /\ \E chars \in SpanDocs :
            InitWith([LoadedBuffer EXCEPT !.chars = chars], [call |-> "new", saved |-> <<>>])
    /\ [][SpansNext]_vars

\* C16: after the deletion of a range has been recorded and undone, every
\* character of the buffer is the one it was before the deletion and
\* carries exactly the tags it carried: the deleted text is back at start
\* and every span has its boundaries back.
C16_SpanExactness ==
    hist.call = "undo" => (status = "run" /\ buffer.chars = hist.saved)

\* C16 happens: the deletion of the whole of a text with three spans that
\* overlap in pairs, bold over [0,2), italic over [1,3) and underline over
\* [2,3), was undone
C16_Witness ==
    /\ hist.call = "undo"
    /\ DocLen(buffer) >= 3
    /\ buffer.chars[1].t = {BOLD}
    /\ buffer.chars[2].t = {BOLD, ITALIC}
    /\ buffer.chars[3].t = {ITALIC, UNDERLINE}
    /\ priv.redo_queue /= <<>>
    /\ Head(priv.redo_queue)[1].type = "DELETE"
    /\ Head(priv.redo_queue)[1].start = 0
    /\ Head(priv.redo_queue)[1].end >= 3

\* C37: the tags saved for a range [start, end) with start < end, by a
\* deletion or when a WP_UNDO_TAG Operation is opened, are, for each tag,
\* the maximal stretches of [start, end) all of whose characters carry the
\* tag: each is inside the range, is marked applied, and cannot be
\* extended inside the range, and a character of the range that carries a
\* tag is in exactly one of the tag's stretches.
C37_SweepResult ==
    (/\ hist.call \in {"delete_range", "apply_tag"}
     /\ status = "run"
     /\ priv.undo_queue[1][1].start < priv.undo_queue[1][1].end) =>
        LET op == priv.undo_queue[1][1]
            chars == IF hist.call = "delete_range" THEN hist.saved ELSE buffer.chars
            snaps == IF hist.call = "delete_range" THEN op.tags ELSE op.orig_tags
            on(t, o) == o >= 0 /\ o < Len(chars) /\ t \in chars[o + 1].t
        IN  /\ \A i \in 1..Len(snaps) :
                    /\ snaps[i].apply
                    /\ op.start <= snaps[i].start
                    /\ snaps[i].start < snaps[i].end
                    /\ snaps[i].end <= op.end
                    /\ \A o \in snaps[i].start..(snaps[i].end - 1) : on(snaps[i].tag, o)
                    /\ snaps[i].start = op.start \/ ~on(snaps[i].tag, snaps[i].start - 1)
                    /\ snaps[i].end = op.end \/ ~on(snaps[i].tag, snaps[i].end)
            /\ \A t \in AllTags, o \in op.start..(op.end - 1) :
                    on(t, o) =>
                        Cardinality({i \in 1..Len(snaps) :
                                        /\ snaps[i].tag = t
                                        /\ snaps[i].start <= o
                                        /\ o < snaps[i].end}) = 1

\* C37 happens: a WP_UNDO_TAG Operation was opened on the whole of a text
\* whose first and third characters are bold and whose second is not, and
\* two bold stretches were saved
C37_Witness ==
    /\ hist.call = "apply_tag"
    /\ status = "run"
    /\ DocLen(buffer) = 3
    /\ BOLD \in buffer.chars[1].t
    /\ BOLD \notin buffer.chars[2].t
    /\ BOLD \in buffer.chars[3].t
    /\ priv.undo_queue[1][1].type = "TAG"
    /\ priv.undo_queue[1][1].start = 0
    /\ priv.undo_queue[1][1].end = 3
    /\ Cardinality({i \in 1..Len(priv.undo_queue[1][1].orig_tags) :
                        priv.undo_queue[1][1].orig_tags[i].tag = BOLD}) = 2

\* C38: the tags saved for an empty range are none, and no stretch saved
\* for any range is empty.
C38_SweepNoEmptySnapshot ==
    (hist.call = "apply_tag" /\ status = "run") =>
        LET op == priv.undo_queue[1][1]
        IN  /\ op.start = op.end => op.orig_tags = <<>>
            /\ \A i \in 1..Len(op.orig_tags) : op.orig_tags[i].start < op.orig_tags[i].end

-----------------------------------------------------------------------------
(* SpecOrder: one transaction of insertions and deletions is recorded,     *)
(* then undone and redone any number of times.                             *)

OrderNext ==
    \/ hist.call = "new" /\ StartGroup("order")
    \/ priv.group > 0 /\ InsertText("order", {<<"a">>, <<SPACE>>, <<NEWLINE>>})
    \/ priv.group > 0 /\ DeleteRange("order")
    \/ priv.group > 0 /\ priv.undo_queue /= <<>> /\ EndGroup("order")
    \/ hist.call \in {"end_group", "redo"} /\ Undo("order")
    \/ hist.call = "undo" /\ Redo("order")

SpecOrder ==
    InitWith(InitBuffer, [call |-> "new", recorded |-> <<>>, undos |-> 0, first |-> <<>>])
        /\ [][OrderNext]_vars

\* the text after the Operations ops, taken in the order of the list, are
\* replayed on it: forward (an INSERT puts its text at start, a DELETE
\* takes [start, end) out) or inverted; an offset past the end of the text
\* is the end of the text
RECURSIVE TextReplay(_, _, _)
TextReplay(text, ops, forward) ==
    IF ops = <<>> THEN text
    ELSE LET op == Head(ops)
             s == Min(op.start, Len(text))
             e == Min(op.end, Len(text))
             next == IF (op.type = "INSERT") = forward
                     THEN Slice(text, 1, s) \o op.text \o Slice(text, s + 1, Len(text))
                     ELSE Slice(text, 1, s) \o Slice(text, e + 1, Len(text))
         IN  TextReplay(next, Tail(ops), forward)

\* C17 as stated: undo() inverts the Operations of the head Group in the
\* order in which they were recorded, the first recorded first.
C17_UndoRecordedOrder ==
    [][(hist'.call = "undo" /\ wp_undo_can_undo(priv) /\ status' = "run") =>
            BufferText(buffer')
                = TextReplay(BufferText(buffer), Recorded(Head(priv.undo_queue)), FALSE)
      ]_vars

\* C17 as the code has it: undo() inverts the Operations of the head Group
\* from the most recently recorded one back to the first recorded one.
C17_UndoMostRecentFirst ==
    [][(hist'.call = "undo" /\ wp_undo_can_undo(priv) /\ status' = "run") =>
            BufferText(buffer')
                = TextReplay(BufferText(buffer), Head(priv.undo_queue), FALSE)
      ]_vars

\* C17 happens: a transaction that typed a letter and deleted it again
\* was undone, which leaves the text empty only when the deletion is
\* inverted before the insertion
C17_Witness ==
    /\ hist.call = "undo"
    /\ hist.undos = 1
    /\ Len(hist.recorded) = 2
    /\ hist.recorded[2].type = "INSERT" /\ hist.recorded[2].text = <<"a">>
    /\ hist.recorded[1].type = "DELETE" /\ hist.recorded[1].text = <<"a">>
    /\ BufferText(buffer) = <<>>
    /\ priv.redo_queue /= <<>>

\* C18: redo() replays the Operations the transaction recorded, the first
\* recorded first, however many times the Group was undone and redone.
C18_RedoOrder ==
    [][(hist'.call = "redo" /\ wp_undo_can_redo(priv) /\ status' = "run") =>
            BufferText(buffer')
                = TextReplay(BufferText(buffer), Recorded(hist.recorded), TRUE)
      ]_vars

\* C19: after undo() and redo() the Group at the head of the undo queue
\* holds the Operations, in the order, that the Group moved by the undo()
\* held; and a second undo() leaves the buffer as the first undo() left it.
C19_GroupPreserved ==
    [][/\ (hist'.call = "redo" /\ wp_undo_can_redo(priv) /\ status' = "run") =>
            Head(priv'.undo_queue) \in {Head(priv.redo_queue), Closed(Head(priv.redo_queue))}
       /\ (hist'.call = "undo" /\ hist'.undos = 2 /\ status' = "run") =>
            buffer'.chars = hist'.first
      ]_vars

\* C21 as stated: an insertion of one character that is not a line break, made
\* while recording is enabled, is merged into the current Operation
\* exactly when that is a mergeable INSERT that ends where the character
\* goes and the character is white space or the last one recorded was
\* not; merged, the Operation has the character added to its text and its
\* end moved by one; otherwise a new INSERT Operation is the current one
\* and the one that was current is not mergeable any more.
C21_InsertMergeRule ==
    [][(/\ hist'.call = "insert_text"
        /\ status' = "run"
        /\ ~Disabled(priv)
        /\ priv.current_op /= FREED
        /\ DocLen(buffer') = DocLen(buffer) + 1
        /\ buffer'.chars[buffer.cursor + 1].c /= NEWLINE) =>
            LET q == priv.undo_queue
                r == priv'.undo_queue
                c == buffer'.chars[buffer.cursor + 1].c
                has == priv.current_op /= NULL
                la == q[1][1]
                rule == /\ has
                        /\ la.mergeable /\ la.type = "INSERT"
                        /\ la.end = buffer.cursor
                        /\ c = SPACE \/ ~priv.last_char_is_space
                merged == /\ has
                          /\ r = [q EXCEPT ![1][1] = [la EXCEPT !.text = @ \o <<c>>,
                                                                !.end = @ + 1,
                                                                !.tags = r[1][1].tags]]
                previous == IF Len(r) = Len(q) THEN r[1][2] ELSE r[2][1]
                created == /\ r /= <<>>
                           /\ priv'.current_op = "undo_head"
                           /\ r[1][1].type = "INSERT"
                           /\ r[1][1].text = <<c>>
                           /\ r[1][1].start = buffer.cursor
                           /\ r[1][1].end = buffer.cursor + 1
                           /\ has => ~previous.mergeable
            IN  /\ rule <=> merged
                /\ ~rule => created
      ]_vars

\* C21 as the code has it: an insertion of one character that is not a line break, made
\* while recording is enabled, is merged into the current Operation
\* exactly when that is a mergeable INSERT that ends where the character
\* goes and the character is white space or the last one recorded was
\* not; merged, the Operation has the character added to its text and its
\* end moved by one; otherwise a new INSERT Operation is the current one
\* and the one that was current, when it is an INSERT, is not mergeable
\* any more.
C21_InsertMergeClosesInsert ==
    [][(/\ hist'.call = "insert_text"
        /\ status' = "run"
        /\ ~Disabled(priv)
        /\ priv.current_op /= FREED
        /\ DocLen(buffer') = DocLen(buffer) + 1
        /\ buffer'.chars[buffer.cursor + 1].c /= NEWLINE) =>
            LET q == priv.undo_queue
                r == priv'.undo_queue
                c == buffer'.chars[buffer.cursor + 1].c
                has == priv.current_op /= NULL
                la == q[1][1]
                rule == /\ has
                        /\ la.mergeable /\ la.type = "INSERT"
                        /\ la.end = buffer.cursor
                        /\ c = SPACE \/ ~priv.last_char_is_space
                merged == /\ has
                          /\ r = [q EXCEPT ![1][1] = [la EXCEPT !.text = @ \o <<c>>,
                                                                !.end = @ + 1,
                                                                !.tags = r[1][1].tags]]
                previous == IF Len(r) = Len(q) THEN r[1][2] ELSE r[2][1]
                created == /\ r /= <<>>
                           /\ priv'.current_op = "undo_head"
                           /\ r[1][1].type = "INSERT"
                           /\ r[1][1].text = <<c>>
                           /\ r[1][1].start = buffer.cursor
                           /\ r[1][1].end = buffer.cursor + 1
                           /\ (has /\ la.type = "INSERT") => ~previous.mergeable
            IN  /\ rule <=> merged
                /\ ~rule => created
      ]_vars

\* C21 happens: a letter typed after a space, where the INSERT Operation
\* that holds the space ends, began a new Operation, and the Operation
\* before it in the Group is closed
C21_Witness ==
    /\ hist.call = "insert_text"
    /\ status = "run"
    /\ priv.current_op = "undo_head"
    /\ Len(priv.undo_queue[1]) >= 2
    /\ priv.undo_queue[1][1].text = <<"a">>
    /\ priv.undo_queue[1][1].mergeable
    /\ priv.undo_queue[1][2].type = "INSERT"
    /\ priv.undo_queue[1][2].text = <<SPACE>>
    /\ priv.undo_queue[1][2].end = priv.undo_queue[1][1].start
    /\ ~priv.undo_queue[1][2].mergeable

-----------------------------------------------------------------------------
(* SpecKeys: in a loaded document of letters and spaces, some of them      *)
(* bold, with the insert mark anywhere, characters are typed and deleted   *)
(* with Backspace and Delete, in transactions and outside them.            *)
(* end_group() is also called without a start_group() before it.           *)

\* the documents: SpanLen characters, each a letter or a space, bold or not,
\* and one document of letters with an image before the last of them
KeyDocs ==
    {[k \in 1..SpanLen |-> [c |-> cs[k], t |-> IF bold[k] THEN {BOLD} ELSE {}]] :
        cs \in [1..SpanLen -> {"a", SPACE}], bold \in [1..SpanLen -> BOOLEAN]}
    \cup {[k \in 1..SpanLen |-> [c |-> IF k = SpanLen - 1 THEN OBJ ELSE "a", t |-> {}]]}

KeysNext ==
    \/ priv.group <= 0 /\ Call("keys", "start_group", wp_undo_start_group(M0))
    \/ priv.group >= 0 /\ Call("keys", "end_group", wp_undo_end_group(M0))
    \/ InsertText("keys", {<<"a">>})
    \/ DeleteRange("keys")

SpecKeys ==
    /\ \E chars \in KeyDocs, mark \in 0..SpanLen :
            InitWith([LoadedBuffer EXCEPT !.chars = chars, !.cursor = mark, !.bound = mark],
                     [call |-> "new", backward |-> FALSE])
    /\ [][KeysNext]_vars

\* C22: a deletion of one character that is not a line break, made while
\* recording is enabled, is merged into the current Operation exactly when
\* that is a mergeable DELETE of the same direction, the character lies
\* next to it in that direction (Backspace: it ends where the Operation
\* starts, and goes in front of its text; Delete: it starts where the
\* Operation ends, and goes behind), and the character is white space or
\* the last one recorded was not; otherwise a new DELETE Operation is the
\* current one.  A deletion is backward when the character lies before
\* the insert mark; the direction of the current Operation is the one of
\* the deletion that was recorded last.
C22_DeleteMergeRule ==
    [][(/\ hist'.call = "delete_range"
        /\ status' = "run"
        /\ ~Disabled(priv)
        /\ priv.current_op /= FREED
        /\ DocLen(buffer') = DocLen(buffer) - 1
        /\ buffer.chars[buffer'.cursor + 1].c /= NEWLINE) =>
            LET q == priv.undo_queue
                r == priv'.undo_queue
                start == buffer'.cursor
                end == start + 1
                c == buffer.chars[start + 1].c
                backward == start < buffer.cursor
                has == priv.current_op /= NULL
                la == q[1][1]
                rule == /\ has
                        /\ la.mergeable /\ la.type = "DELETE"
                        /\ hist.backward = backward
                        /\ IF backward THEN la.start = end ELSE la.end = start
                        /\ c = SPACE \/ ~priv.last_char_is_space
                grown == IF backward
                         THEN [la EXCEPT !.text = <<c>> \o @, !.start = start]
                         ELSE [la EXCEPT !.text = @ \o <<c>>, !.end = end]
                merged == /\ has
                          /\ r = [q EXCEPT ![1][1] = [grown EXCEPT !.tags = r[1][1].tags,
                                                                   !.mergeable = r[1][1].mergeable]]
                created == /\ r /= <<>>
                           /\ priv'.current_op = "undo_head"
                           /\ r[1][1].type = "DELETE"
                           /\ r[1][1].text = <<c>>
                           /\ r[1][1].start = start
                           /\ r[1][1].end = end
                           /\ Len(r) > Len(q) \/ Len(r[1]) > Len(q[1])
            IN  /\ rule <=> merged
                /\ ~rule => created
      ]_vars

\* C23: when an insertion or a deletion returns with the current Operation
\* mergeable, what was inserted or deleted is one character, not a line
\* break, and, for a deletion, no tag begins or ends at the side of the
\* character where the deletion goes on: its start for Backspace, its end
\* for Delete.
C23_MergeablePolicy ==
    [][(/\ hist'.call \in {"insert_text", "delete_range"}
        /\ status' = "run"
        /\ ~Disabled(priv)
        /\ priv'.current_op = "undo_head"
        /\ priv'.undo_queue[1][1].mergeable) =>
            LET start == IF hist'.call = "insert_text" THEN buffer.cursor ELSE buffer'.cursor
                c == IF hist'.call = "insert_text"
                     THEN buffer'.chars[start + 1].c
                     ELSE buffer.chars[start + 1].c
                backward == start < buffer.cursor
                side == IF backward THEN start ELSE start + 1
                tags(k) == IF k \in 1..DocLen(buffer) THEN buffer.chars[k].t ELSE {}
            IN  /\ DocLen(buffer') - DocLen(buffer) \in {1, 0 - 1}
                /\ c /= NEWLINE
                /\ hist'.call = "delete_range" => tags(side) = tags(side + 1)
      ]_vars

\* C40: in every INSERT and DELETE Operation of the undo queue and of the
\* redo queue, end - start is the number of characters of text.
C40_RangeIsTextLength ==
    \A q \in {priv.undo_queue, priv.redo_queue} :
        \A i \in 1..Len(q) : \A j \in 1..Len(q[i]) :
            q[i][j].type \in {"INSERT", "DELETE"} =>
                q[i][j].end - q[i][j].start = Len(q[i][j].text)

\* C40 happens: the image and the letter before it were deleted one after
\* the other and merged into one DELETE, whose text has a space for the image
C40_Witness ==
    /\ hist.call = "delete_range"
    /\ status = "run"
    /\ priv.undo_queue /= <<>>
    /\ priv.undo_queue[1][1].type = "DELETE"
    /\ priv.undo_queue[1][1].text = <<"a", SPACE>>
    /\ priv.undo_queue[1][1].start = 0
    /\ priv.undo_queue[1][1].end = 2
    /\ BufferText(buffer) = <<"a">>

\* C31: the DELETE Operation that a deletion creates has backspace TRUE
\* exactly when the start of the deleted range is before the insert mark
\* as it was when the deletion was reported.
C31_DeleteDirection ==
    [][(/\ hist'.call = "delete_range"
        /\ status' = "run"
        /\ ~Disabled(priv)
        /\ priv'.undo_queue /= <<>>
        /\ priv'.current_op = "undo_head"
        /\ \/ Len(priv'.undo_queue) > Len(priv.undo_queue)
           \/ Len(priv'.undo_queue[1]) > Len(priv.undo_queue[1])) =>
            /\ priv'.undo_queue[1][1].type = "DELETE"
            /\ priv'.undo_queue[1][1].backspace <=> (buffer'.cursor < buffer.cursor)
      ]_vars

\* C29: wp_undo_end_group called while no transaction is open changes
\* nothing in the engine: the transaction count, the flags, the queues and
\* current_op are as they were, so that the calls after it are grouped as
\* they would be without it.
C29_UnmatchedEndIgnored ==
    [][(hist'.call = "end_group" /\ priv.group = 0) => priv' = priv]_vars

-----------------------------------------------------------------------------
(* SpecReplay: insertions and deletions outside transactions, undo() and   *)
(* redo(), with freeze() and thaw() in any order; thaw() is also called    *)
(* without a freeze() before it.                                           *)

ReplayNext ==
    \/ InsertText("replay", {<<"a">>})
    \/ DeleteRange("replay")
    \/ priv.undo_disabled < MaxNest /\ Freeze("replay")
    \/ priv.undo_disabled > 0 - MaxNest /\ Thaw("replay")
    \/ Undo("replay")
    \/ Redo("replay")

SpecReplay == InitWith(InitBuffer, [call |-> "new"]) /\ [][ReplayNext]_vars

\* C28: an undo() or redo() that replays a Group and returns leaves
\* undo_disabled as it was, and the insert-text and delete-range reports
\* of the buffer during the replay record nothing: the Group moves from
\* the head of one queue to the head of the other, the Groups behind it in
\* both queues stay as they were, and the redo queue is not cleared.
C28_ReplayIgnored ==
    [][/\ (hist'.call = "undo" /\ status' = "run" /\ wp_undo_can_undo(priv) /\ ~priv.low_mem) =>
            /\ priv'.undo_disabled = priv.undo_disabled
            /\ priv'.undo_queue = Tail(priv.undo_queue)
            /\ priv'.redo_queue /= <<>>
            /\ Tail(priv'.redo_queue) = priv.redo_queue
       /\ (hist'.call = "redo" /\ status' = "run" /\ wp_undo_can_redo(priv) /\ ~priv.low_mem) =>
            /\ priv'.undo_disabled = priv.undo_disabled
            /\ priv'.redo_queue = Tail(priv.redo_queue)
            /\ priv'.undo_queue /= <<>>
            /\ Tail(priv'.undo_queue) = priv.undo_queue
      ]_vars

-----------------------------------------------------------------------------
(* SpecBullets: characters and line breaks are typed into a loaded         *)
(* document in which any characters carry the bullet tag, outside          *)
(* transactions, and undone and redone.                                    *)

BulletsNext ==
    \/ InsertText("bullets", {<<"a">>, <<NEWLINE>>})
    \/ Undo("bullets")
    \/ Redo("bullets")

SpecBullets ==
    /\ \E cs \in [1..MaxDocLen -> {"a", SPACE}], bullet \in [1..MaxDocLen -> BOOLEAN],
          mark \in 0..MaxDocLen :
            InitWith([LoadedBuffer EXCEPT
                        !.chars = [k \in 1..MaxDocLen |->
                                     [c |-> cs[k], t |-> IF bullet[k] THEN {BULLET} ELSE {}]],
                        !.cursor = mark, !.bound = mark],
                     [call |-> "new"])
    /\ [][BulletsNext]_vars

\* C32: an undo() that returns from a Group whose only Operation is an
\* INSERT leaves the document without the characters of [start, end), and
\* the cursor at start, or at the end of the bullet span when one begins
\* at start.
C32_UndoOfInsert ==
    [][(/\ hist'.call = "undo"
        /\ status' = "run"
        /\ wp_undo_can_undo(priv)
        /\ Len(Head(priv.undo_queue)) = 1
        /\ Head(priv.undo_queue)[1].type = "INSERT") =>
            LET op == Head(priv.undo_queue)[1]
                b2 == gtk_text_buffer_delete(buffer, op.start, op.end)
            IN  /\ buffer'.chars = b2.chars
                /\ \/ buffer'.cursor = op.start
                   \/ /\ BULLET \in TagsAt(b2, op.start)
                      /\ buffer'.cursor = NextToggleOf(b2, op.start, BULLET)
      ]_vars

\* C33: no call of undo() or redo() fails to return.
C33_ReplayTerminates == status /= "hang"

-----------------------------------------------------------------------------
(* SpecFormat: one transaction of insertions, deletions and changes        *)
(* between rich and plain text on a loaded document, undone and redone.    *)

FormatNext ==
    \/ hist.call = "new" /\ StartGroup("format")
    \/ priv.group > 0 /\ InsertText("format", {<<"a">>})
    \/ priv.group > 0 /\ DeleteRange("format")
    \/ priv.group > 0 /\ FormatChanged("format")
    \/ EndGroup("format")
    \/ priv.group = 0 /\ Undo("format")
    \/ priv.group = 0 /\ Redo("format")

SpecFormat ==
    /\ \E mark \in 0..MaxDocLen :
            InitWith([LoadedBuffer EXCEPT
                        !.chars = [k \in 1..MaxDocLen |-> [c |-> "a", t |-> {}]],
                        !.cursor = mark, !.bound = mark],
                     [call |-> "new"])
    /\ [][FormatNext]_vars

\* C34: when undo() replays a Group of two Operations whose first
\* processed one is a FMT that goes back to rich text and whose second is
\* an INSERT or a DELETE, the position the second one proposes is not
\* applied: the cursor is where the insert mark, left in place by the
\* FMT, is carried by the change of the text.
C34_LaterProposalDiscarded ==
    [][(/\ hist'.call = "undo"
        /\ status' = "run"
        /\ wp_undo_can_undo(priv) /\ ~priv.low_mem
        /\ Len(Head(priv.undo_queue)) = 2
        /\ Head(priv.undo_queue)[1].type = "FMT"
        /\ ~Head(priv.undo_queue)[1].rich_text
        /\ Head(priv.undo_queue)[2].type \in {"INSERT", "DELETE"}) =>
            LET op == Head(priv.undo_queue)[2]
            IN  buffer'.cursor =
                    IF op.type = "DELETE"
                    THEN MarkAfterInsert(buffer.cursor, IterAt(buffer, op.start), Len(op.text))
                    ELSE MarkAfterDelete(buffer.cursor, op.start, op.end)
      ]_vars

\* C34, amended: a FMT that goes back to rich text discards the position
\* proposed by the Operation processed before it, and the position
\* proposed by the Operation processed after it is applied.
C34_EarlierProposalDiscarded ==
    [][(/\ hist'.call = "undo"
        /\ status' = "run"
        /\ wp_undo_can_undo(priv) /\ ~priv.low_mem
        /\ Len(Head(priv.undo_queue)) = 2) =>
            LET g == Head(priv.undo_queue)
                fmt(op) == op.type = "FMT" /\ ~op.rich_text
                text(op) == op.type \in {"INSERT", "DELETE"}
                proposed(op) == IF op.type = "DELETE" /\ op.backspace THEN op.end ELSE op.start
                carried(op) ==
                    IF op.type = "DELETE"
                    THEN MarkAfterInsert(buffer.cursor, IterAt(buffer, op.start), Len(op.text))
                    ELSE MarkAfterDelete(buffer.cursor, op.start, op.end)
            IN  /\ (fmt(g[1]) /\ text(g[2])) => buffer'.cursor = proposed(g[2])
                /\ (text(g[1]) /\ fmt(g[2])) => buffer'.cursor = carried(g[1])
      ]_vars

\* a Group of a deletion and a change to plain text was undone, and the
\* cursor is at the start of the deletion, before the text put back
C34_Witness ==
    /\ hist.call = "undo"
    /\ status = "run"
    /\ priv.redo_queue /= <<>>
    /\ Len(Head(priv.redo_queue)) = 2
    /\ Head(priv.redo_queue)[1].type = "FMT"
    /\ ~Head(priv.redo_queue)[1].rich_text
    /\ Head(priv.redo_queue)[2].type = "DELETE"
    /\ ~Head(priv.redo_queue)[2].backspace
    /\ buffer.cursor = Head(priv.redo_queue)[2].start
    /\ buffer.cursor < Head(priv.redo_queue)[2].end

-----------------------------------------------------------------------------
(* SpecSelect: ranges of a loaded document are selected, with              *)
(* wp_undo_reset_mergeable between selections and insertions in            *)
(* transactions, and undone.                                               *)

SelectNext ==
    \/ StartGroup("select")
    \/ EndGroup("select")
    \/ SelectRange("select")
    \/ ResetMergeable("select")
    \/ priv.group > 0 /\ InsertText("select", {<<"a">>})
    \/ priv.group = 0 /\ Undo("select")

SpecSelect ==
    /\ InitWith([LoadedBuffer EXCEPT !.chars = [k \in 1..MaxDocLen |-> [c |-> "a", t |-> {}]]],
                [call |-> "new"])
    /\ [][SelectNext]_vars

\* the selection, as <<insert, bound>>, that undoing a SELECT of rng leaves
\* by the rule of C35 when the selection is cur and the Groups q are behind
\* the one undone
RECURSIVE SelectionRule(_, _, _, _)
SelectionRule(b, cur, rng, q) ==
    IF cur /= rng THEN rng
    ELSE IF q = <<>> \/ \E i \in 1..Len(q[1]) : q[1][i].type /= "SELECT"
    THEN <<rng[2], rng[2]>>
    ELSE SelectionRule(b, cur, <<IterAt(b, q[1][1].sel_start), IterAt(b, q[1][1].sel_end)>>,
                       Tail(q))

\* C35: an undo() of a Group whose only Operation is a SELECT selects its
\* range when the selection differs from it; when the selection is that
\* range it applies the selection of the next Group of the undo queue if
\* that Group holds only SELECT Operations, going on through the Groups
\* behind it in the same way, and otherwise puts the cursor at the end of
\* the range.
C35_UndoOfSelection ==
    [][(/\ hist'.call = "undo"
        /\ status' = "run"
        /\ wp_undo_can_undo(priv) /\ ~priv.low_mem
        /\ Len(Head(priv.undo_queue)) = 1
        /\ Head(priv.undo_queue)[1].type = "SELECT") =>
            LET op == Head(priv.undo_queue)[1]
                want == SelectionRule(buffer, SelectionBounds(buffer),
                                      <<IterAt(buffer, op.sel_start), IterAt(buffer, op.sel_end)>>,
                                      Tail(priv.undo_queue))
            IN  SelectionBounds(buffer') = <<Min(want[1], want[2]), Max(want[1], want[2])>>
      ]_vars

\* C35, amended: only the Group next to the one undone is looked at, and
\* only its first Operation: when the selection is the range of the SELECT
\* undone and that Operation is a SELECT, its range is selected if the
\* selection differs from it and the cursor is put at its end if not;
\* when that Operation is no SELECT, or the undo queue is empty, the cursor
\* is put at the end of the range undone.
C35_UndoOfSelectionOnce ==
    [][(/\ hist'.call = "undo"
        /\ status' = "run"
        /\ wp_undo_can_undo(priv) /\ ~priv.low_mem
        /\ Len(Head(priv.undo_queue)) = 1
        /\ Head(priv.undo_queue)[1].type = "SELECT") =>
            LET op == Head(priv.undo_queue)[1]
                q == Tail(priv.undo_queue)
                cur == SelectionBounds(buffer)
                rng == <<IterAt(buffer, op.sel_start), IterAt(buffer, op.sel_end)>>
                nxt == <<IterAt(buffer, q[1][1].sel_start), IterAt(buffer, q[1][1].sel_end)>>
                want == IF cur /= rng THEN rng
                        ELSE IF q = <<>> \/ q[1][1].type /= "SELECT" THEN <<rng[2], rng[2]>>
                        ELSE IF cur /= nxt THEN nxt
                        ELSE <<nxt[2], nxt[2]>>
            IN  /\ buffer'.cursor = want[1]
                /\ buffer'.bound = want[2]
      ]_vars

\* a SELECT whose range was the selection was undone, and the range of the
\* SELECT of the next Group, a different one, is selected
C35_Witness ==
    /\ hist.call = "undo"
    /\ status = "run"
    /\ priv.redo_queue /= <<>>
    /\ priv.undo_queue /= <<>>
    /\ Len(Head(priv.redo_queue)) = 1
    /\ Head(priv.redo_queue)[1].type = "SELECT"
    /\ Head(priv.undo_queue)[1].type = "SELECT"
    /\ Head(priv.undo_queue)[1].sel_start /= Head(priv.redo_queue)[1].sel_start
    /\ buffer.cursor = Head(priv.undo_queue)[1].sel_start
    /\ buffer.bound = Head(priv.undo_queue)[1].sel_end

=============================================================================
